---- MODULE Spec2Model ----
(***************************************************************************)
(* x402-stacks: the client side of the HTTP 402 payment protocol.          *)
(*                                                                         *)
(* Two entry points are modelled, each as a process of the application:    *)
(*   - X402PaymentClient.requestWithPayment (src/src/client.ts), the       *)
(*     explicit retry loop;                                                *)
(*   - the response interceptor installed by wrapAxiosWithPaymentV1        *)
(*     (src/unnamed/part_000), with its module-level WeakSet               *)
(*     paymentAttempted.                                                   *)
(* The HTTP client (axios), the server, the chain SDK and the clock are    *)
(* the environment: their answers are chosen nondeterministically.         *)
(***************************************************************************)
EXTENDS Integers, Sequences, FiniteSets, TLC

\* ------------------------------------------------------------------ bounds
\* Largest maxRetries option a caller passes.
MaxRetriesBound == 2
\* The clock runs over 0..MaxTime (milliseconds since the first request).
MaxTime == 2
\* Config objects the HTTP client creates for one caller request.
MaxConfigs == 2

\* All application processes, and the one that runs alone in Spec.
Procs == {1, 2}
SeqProcs == {1}

\* ------------------------------------------------------- optional values
\* undefined / absent is the empty sequence, a present value v is <<v>>.
None == <<>>
Some(v) == <<v>>

\* ------------------------------------------------------------ JSON values
\* A JSON value is a record of string tokens.  json is its JavaScript kind;
\* a property holds a string, or Absent (undefined), or NonString (a value
\* whose typeof is not 'string').
Absent == "<absent>"
NonString == "<number>"

typeofString(v) == v \notin {Absent, NonString}

truthy(v) == v \notin {Absent, ""}

\* new Date(ms).toISOString(), abstractly: the text of the instant ms.
toISOString(ms) == "T+" \o ToString(ms)

Instants == 0..(MaxTime + 1)

\* new Date(text).getTime(): the instant a text denotes, None for NaN.
DateParse(text) ==
  IF \E ms \in Instants : toISOString(ms) = text
    THEN Some(CHOOSE ms \in Instants : toISOString(ms) = text)
    ELSE None

\* a < b on Date values: false whenever either side is an Invalid Date.
DateLess(a, b) == a # None /\ b # None /\ a[1] < b[1]

FarFuture == toISOString(MaxTime + 1)

TokenContractValue == "SM3VDXK3WZZSA84XXFKAFAF15NNZX32CTSG82JFQ4.sbtc-token"

\* The 402 body of scenario A: all six required fields, no token type.
BaseBody ==
  [json |-> "object", ok |-> Absent,
   maxAmountRequired |-> "1000000", resource |-> "/resource",
   payTo |-> "ST-PAYEE", network |-> "testnet", nonce |-> "abc123",
   expiresAt |-> FarFuture, tokenType |-> Absent, tokenContract |-> Absent]

EmptyObject ==
  [json |-> "object", ok |-> Absent,
   maxAmountRequired |-> Absent, resource |-> Absent, payTo |-> Absent,
   network |-> Absent, nonce |-> Absent, expiresAt |-> Absent,
   tokenType |-> Absent, tokenContract |-> Absent]

NullBody == [EmptyObject EXCEPT !.json = "null"]
TextBody == [EmptyObject EXCEPT !.json = "string"]
OkBody == [EmptyObject EXCEPT !.ok = "true"]
OtherOkBody == [EmptyObject EXCEPT !.ok = "false"]

\* Bodies that differ from BaseBody in the moment of expiry: one that
\* expires while the clock runs, and one whose expiresAt is no date.
ExpiryBodies ==
  {[BaseBody EXCEPT !.expiresAt = e] :
     e \in {toISOString(1), FarFuture, "not-a-date"}}

\* Bodies that differ from BaseBody in the token type and contract.
TokenBodies ==
  {[BaseBody EXCEPT !.tokenType = t, !.tokenContract = c] :
     t \in {"STX", "sBTC", "USDCx", "DOGE"}, c \in {Absent}}
  \cup
  {[BaseBody EXCEPT !.tokenType = t, !.tokenContract = TokenContractValue] :
     t \in {"sBTC", "USDCx"}}

\* A body that validates and whose amount is not an integer literal.
BadAmountBody == [BaseBody EXCEPT !.maxAmountRequired = "abc"]

\* Bodies that fail the structural check.
MalformedBodies ==
  {NullBody, TextBody, OkBody,
   [BaseBody EXCEPT !.nonce = Absent, !.expiresAt = toISOString(1)],
   [BaseBody EXCEPT !.expiresAt = NonString],
   [BaseBody EXCEPT !.network = "devnet"]}

Bodies == ExpiryBodies \cup TokenBodies \cup {BadAmountBody} \cup MalformedBodies

\* The bodies the server uses in the two-process specification.
ConcBodies ==
  {BaseBody,
   [BaseBody EXCEPT !.tokenType = "sBTC", !.tokenContract = TokenContractValue]}

\* ------------------------------------------------------------- responses
\* What the HTTP client reports for one transmitted request: a response
\* with a status and a body, or a failure without a response (status 0:
\* timeout, connection refused).
Response(st, d) == [status |-> st, data |-> d]

NoResponse == Response(0, NullBody)

Responses ==
  {Response(200, d) : d \in {OkBody, OtherOkBody}}
  \cup {Response(402, d) : d \in Bodies}
  \cup {Response(500, TextBody), NoResponse}

ConcResponses ==
  {Response(200, OkBody), Response(500, TextBody)}
  \cup {Response(402, d) : d \in ConcBodies}

IsError(resp) == resp.status \notin {200}

\* ---------------------------------------------------------------- errors
\* An Error object.  by/seq identify the object the HTTP client created
\* for its seq-th transmission of process by; errors this library creates
\* with new Error(...) carry <<0, 0>>.
HttpError(p, k, resp) ==
  [name |-> "AxiosError", message |-> "Request failed",
   response |-> IF resp.status = 0 THEN None ELSE Some(resp),
   by |-> p, seq |-> k]

NewError(msg) ==
  [name |-> "Error", message |-> msg, response |-> None, by |-> 0, seq |-> 0]

TypeError(msg) ==
  [name |-> "TypeError", message |-> msg, response |-> None, by |-> 0, seq |-> 0]

MsgInvalid == "Invalid x402 payment request from server"
MsgExpired == "Payment request has expired"
MsgSigning == "Payment signing failed: "
MsgMaxRetries == "Max retries exceeded for payment request"
MsgAttempted == "Payment already attempted for this request"

\* How a call ended: it returned a value or threw / rejected with an error.
Returned(v) == [kind |-> "returned", value |-> Some(v), error |-> None]
Threw(e) == [kind |-> "threw", value |-> None, error |-> Some(e)]

\* ------------------------------------------------------------ validation
SixStrings(request) ==
  /\ typeofString(request.maxAmountRequired)
  /\ typeofString(request.resource)
  /\ typeofString(request.payTo)
  /\ typeofString(request.network)
  /\ typeofString(request.nonce)
  /\ typeofString(request.expiresAt)
  /\ request.network \in {"mainnet", "testnet"}

\* X402PaymentClient.isValidPaymentRequest: "true", "false", or "TypeError"
\* when it throws: typeof null is 'object', and reading a property of null
\* throws.
isValidPaymentRequest(request) ==
  IF request.json \notin {"object", "null"} THEN "false"
  ELSE IF request.json = "null" THEN "TypeError"
  ELSE IF SixStrings(request) THEN "true" ELSE "false"

\* The interceptor's isValidPaymentRequest: !data is checked first.
isValidPaymentRequestV1(data) ==
  IF data.json = "null" \/ data.json # "object" THEN "false"
  ELSE IF SixStrings(data) THEN "true" ELSE "false"

\* ------------------------------------------------------------ expiration
\* utils.isPaymentRequestExpired: new Date(expiresAt) < new Date().
isPaymentRequestExpired(expiresAt, clock) ==
  DateLess(DateParse(expiresAt), Some(clock))

\* Mutant of clientExpired: the comparison is turned around.
clientExpiredReversed(paymentRequest, clock) ==
  DateLess(Some(clock), DateParse(paymentRequest.expiresAt))

\* The check inlined in requestWithPayment.
clientExpired(paymentRequest, clock) ==
  DateLess(DateParse(paymentRequest.expiresAt), Some(clock))

\* The check inlined in the interceptor.
interceptorExpired(paymentRequest, clock) ==
  DateLess(DateParse(paymentRequest.expiresAt), Some(clock))

\* --------------------------------------------------------------- signing
\* The private key of a process's account, and the chain SDK's
\* getAddressFromPrivateKey.
privateKey(p) == "sk-" \o ToString(p)
getAddressFromPrivateKey(key, network) ==
  (IF network = "mainnet" THEN "SP-" ELSE "ST-") \o key

\* BigInt(text): None when the text is no integer literal (SyntaxError).
BigInt(text) ==
  IF text = "1000000" THEN Some(1000000)
  ELSE IF text = "0" \/ text = "" THEN Some(0)
  ELSE None

MemoLimit == 34

\* nonce.substring(0, 34)
substring34(text) ==
  IF Len(text) <= MemoLimit THEN text ELSE SubSeq(text, 1, MemoLimit)

\* The euro sign, U+20AC: one UTF-16 unit that UTF-8 writes as three bytes.
\* The texts of the model are ASCII, and write it as a dollar sign.
EuroSign == "$"

\* The number of bytes of a text of ASCII characters and euro signs in UTF-8.
byteLength(text) ==
  Len(text) + 2 * Cardinality({i \in 1..Len(text) : SubSeq(text, i, i) = EuroSign})

\* What the chain SDK does when asked for a native transfer with this memo:
\* it refuses a memo of more than 34 bytes, whatever else would happen.
makeSTXTokenTransferOutcome(sdk, memo) ==
  IF sdk = "ok" /\ byteLength(memo) > MemoLimit THEN "buildFails" ELSE sdk

\* The transaction the chain SDK is asked to build and sign.
makeSTXTokenTransfer(recipient, amount, senderKey, network, memo) ==
  [variant |-> "token_transfer", recipient |-> recipient, amount |-> amount,
   senderKey |-> senderKey, network |-> network, memo |-> Some(memo),
   contract |-> Absent, functionName |-> Absent, sender |-> Absent,
   nonce |-> None, fee |-> None]

makeContractCall(contract, amount, sender, recipient, memo, senderKey, network) ==
  [variant |-> "contract_call", recipient |-> recipient, amount |-> amount,
   senderKey |-> senderKey, network |-> network,
   memo |-> IF truthy(memo) THEN Some(memo) ELSE None,
   contract |-> contract, functionName |-> "transfer", sender |-> sender,
   nonce |-> None, fee |-> None]

\* Mutant of spreadIfDefined: an override of 0 is dropped.
spreadIfTruthy(value) ==
  IF value # None /\ value[1] # 0 THEN value ELSE None

\* ...(details.nonce !== undefined && { nonce: details.nonce }): the option
\* is set when the value is not undefined (None), 0n included.
spreadIfDefined(value) ==
  IF value # None THEN value ELSE None

\* The txOptions of the send and sign methods: the nonce and the fee of the
\* details are added to the options when they are defined.
txOptions(details, options) ==
  [options EXCEPT !.nonce = spreadIfDefined(details.nonce),
                  !.fee = spreadIfDefined(details.fee)]

\* details.memo || ''
memoOrEmpty(details) == IF truthy(details.memo) THEN details.memo ELSE ""

\* transaction.serialize(): the signed artifact.  by/seq tell apart the
\* artifacts of different signings (the seq-th signer call of process by).
serialize(tx, p, k) == [tx |-> tx, by |-> p, seq |-> k]

SignSuccess(artifact, address) ==
  [success |-> TRUE, signedTransaction |-> Some(artifact),
   senderAddress |-> Some(address), error |-> None]

SignFailure(msg) ==
  [success |-> FALSE, signedTransaction |-> None,
   senderAddress |-> None, error |-> Some(msg)]

\* A function that throws: the message of the Error it throws.
Thrown(msg) == [thrown |-> msg]
IsThrown(r) == "thrown" \in DOMAIN r

\* Messages of the errors the runtime and the chain SDK throw.
MsgNullRead == "Cannot read properties of null"
MsgBigInt == "Cannot convert to a BigInt"
MsgSubstring == "Cannot read properties of undefined (reading 'substring')"
SdkMessage == "error of the chain SDK"

PaymentDetails(paymentRequest, amount, key, tokenType) ==
  [recipient |-> paymentRequest.payTo, amount |-> amount, senderKey |-> key,
   network |-> paymentRequest.network, memo |-> substring34(paymentRequest.nonce),
   tokenType |-> tokenType, tokenContract |-> paymentRequest.tokenContract,
   nonce |-> None, fee |-> None]

\* What the chain SDK does during one signing: it works, or it throws
\* when deriving the address (a malformed key), or it throws when building
\* and signing the transaction (no nonce or fee from the node, a bad
\* address).
SdkOutcomes == {"ok", "badKey", "buildFails"}

\* Mutant of signSTXTransfer: the address is derived for testnet, whatever
\* the network of the request.
signSTXTransferTestnetAddress(details, thisKey, p, k, sdk) ==
  IF makeSTXTokenTransferOutcome(sdk, memoOrEmpty(details)) # "ok" THEN SignFailure(SdkMessage)
  ELSE SignSuccess(
         serialize(txOptions(details, makeSTXTokenTransfer(details.recipient, details.amount,
                                        thisKey, details.network, memoOrEmpty(details))),
                   p, k),
         getAddressFromPrivateKey(details.senderKey, "testnet"))

\* X402PaymentClient.signSTXTransfer.
signSTXTransfer(details, thisKey, p, k, sdk) ==
  IF makeSTXTokenTransferOutcome(sdk, memoOrEmpty(details)) # "ok"
    THEN SignFailure(SdkMessage)
  ELSE SignSuccess(
         serialize(txOptions(details,
                     makeSTXTokenTransfer(details.recipient, details.amount, thisKey,
                                          details.network, memoOrEmpty(details))),
                   p, k),
         getAddressFromPrivateKey(details.senderKey, details.network))

\* Mutant of signSBTCTransfer: the token contract is not looked at.
signSBTCTransferUnchecked(details, thisKey, p, k, sdk) ==
  IF sdk # "ok" THEN SignFailure(SdkMessage)
  ELSE SignSuccess(
         serialize(txOptions(details, makeContractCall(details.tokenContract, details.amount,
                     getAddressFromPrivateKey(details.senderKey, details.network),
                     details.recipient, details.memo, thisKey, details.network)),
                   p, k),
         getAddressFromPrivateKey(details.senderKey, details.network))

\* X402PaymentClient.signSBTCTransfer.
signSBTCTransfer(details, thisKey, p, k, sdk) ==
  IF sdk = "badKey" THEN SignFailure(SdkMessage)
  ELSE IF ~truthy(details.tokenContract)
    THEN SignFailure("Token contract required for sBTC transfers")
  ELSE IF sdk # "ok" THEN SignFailure(SdkMessage)
  ELSE SignSuccess(
         serialize(txOptions(details, makeContractCall(details.tokenContract, details.amount,
                     getAddressFromPrivateKey(details.senderKey, details.network),
                     details.recipient, details.memo, thisKey, details.network)),
                   p, k),
         getAddressFromPrivateKey(details.senderKey, details.network))

\* X402PaymentClient.signUSDCxTransfer.
signUSDCxTransfer(details, thisKey, p, k, sdk) ==
  IF sdk = "badKey" THEN SignFailure(SdkMessage)
  ELSE IF ~truthy(details.tokenContract)
    THEN SignFailure("Token contract required for USDCx transfers")
  ELSE IF sdk # "ok" THEN SignFailure(SdkMessage)
  ELSE SignSuccess(
         serialize(txOptions(details, makeContractCall(details.tokenContract, details.amount,
                     getAddressFromPrivateKey(details.senderKey, details.network),
                     details.recipient, details.memo, thisKey, details.network)),
                   p, k),
         getAddressFromPrivateKey(details.senderKey, details.network))

\* paymentRequest.tokenType || 'STX'
tokenTypeOrSTX(paymentRequest) ==
  IF truthy(paymentRequest.tokenType) THEN paymentRequest.tokenType ELSE "STX"

\* The try block of X402PaymentClient.signPayment: the result of the
\* transfer signer it dispatches to, or what it throws before that.
trySignPayment(paymentRequest, p, k, sdk) ==
  IF paymentRequest.json = "null" THEN Thrown(MsgNullRead)
  ELSE
  LET amount == BigInt(paymentRequest.maxAmountRequired)
      tokenType == tokenTypeOrSTX(paymentRequest)
  IN IF amount = None THEN Thrown(MsgBigInt)
     ELSE IF ~typeofString(paymentRequest.nonce) THEN Thrown(MsgSubstring)
     ELSE LET details ==
                PaymentDetails(paymentRequest, amount[1], privateKey(p), tokenType)
          IN IF tokenType = "sBTC"
               THEN signSBTCTransfer(details, privateKey(p), p, k, sdk)
             ELSE IF tokenType = "USDCx"
               THEN signUSDCxTransfer(details, privateKey(p), p, k, sdk)
             ELSE signSTXTransfer(details, privateKey(p), p, k, sdk)

\* Mutant of signPayment: the catch clause is missing.
signPaymentUncaught(paymentRequest, p, k, sdk) ==
  trySignPayment(paymentRequest, p, k, sdk)

\* X402PaymentClient.signPayment: what the try block throws is turned
\* into a failure result by the catch clause.
signPayment(paymentRequest, p, k, sdk) ==
  LET r == trySignPayment(paymentRequest, p, k, sdk)
  IN IF IsThrown(r) THEN SignFailure(r.thrown) ELSE r

\* privateKeyToAccountV1(privateKey, network): the address is derived
\* once, for the network of the account.
privateKeyToAccountV1(key, network) ==
  [address |-> getAddressFromPrivateKey(key, network),
   privateKey |-> key, network |-> network]

\* The account of the wrapped instance of a process: network = 'testnet'
\* is the default of privateKeyToAccountV1.
account(p) == privateKeyToAccountV1(privateKey(p), "testnet")

\* The interceptor's signPayment: it returns the artifact or throws.
signPaymentV1(paymentRequest, acct, p, k, sdk) ==
  IF paymentRequest.json = "null" THEN Thrown(MsgNullRead)
  ELSE
  LET amount == BigInt(paymentRequest.maxAmountRequired)
      tokenType == tokenTypeOrSTX(paymentRequest)
      network == paymentRequest.network
  IN IF amount = None THEN Thrown(MsgBigInt)
     ELSE IF ~typeofString(paymentRequest.nonce) THEN Thrown(MsgSubstring)
     ELSE LET memo == substring34(paymentRequest.nonce) IN
       IF tokenType = "sBTC" \/ tokenType = "USDCx"
         THEN IF ~truthy(paymentRequest.tokenContract)
                THEN Thrown("Token contract required for " \o tokenType \o " payments")
              ELSE IF sdk # "ok" THEN Thrown(SdkMessage)
              ELSE serialize(makeContractCall(paymentRequest.tokenContract,
                               amount[1], acct.address, paymentRequest.payTo,
                               memo, acct.privateKey, network), p, k)
       ELSE IF makeSTXTokenTransferOutcome(sdk, memo) # "ok" THEN Thrown(SdkMessage)
       ELSE serialize(makeSTXTokenTransfer(paymentRequest.payTo, amount[1],
                        acct.privateKey, network, memo), p, k)

\* The interceptor's try/catch around await signPayment: the artifact, or
\* the message of what was thrown.
awaitSignPaymentV1(paymentRequest, acct, p, k, sdk) ==
  LET r == signPaymentV1(paymentRequest, acct, p, k, sdk)
  IN IF IsThrown(r) THEN SignFailure(r.thrown)
     ELSE [success |-> TRUE, signedTransaction |-> Some(r),
           senderAddress |-> None, error |-> None]

\* ----------------------------------------------------------------- state
VARIABLES
  now,                 \* the clock: what new Date() returns
  path,                \* per process: "none", "call" (requestWithPayment), "axios"
  pc,                  \* per process: "idle", "awaitResponse", "signing", "done"
  maxRetries,          \* requestWithPayment: the option
  attempt,             \* requestWithPayment: let attempt
  lastSignedPayment,   \* requestWithPayment: let lastSignedPayment
  lastPaymentRequest,  \* requestWithPayment: let lastPaymentRequest
  paymentRequest,      \* the 402 body being signed (local of either handler)
  configs,             \* the header objects the application handed over: the
                       \* config objects of a request of the wrapped instance,
                       \* or options.headers of a requestWithPayment call
  originalRequest,     \* interceptor: the config object of the request in flight
  paymentAttempted,    \* interceptor: the module-level WeakSet of config objects
  sent,                \* log: requests transmitted, with their headers
  received,            \* log: responses received
  handledAt,           \* what new Date() returned in the latest 402 handler
  signerCalls,         \* log: invocations of the signer and their results
  result,              \* how the call ended, None while it runs
  fnArg,               \* the arguments of a library function called directly
  fnOut                \* what the functions called on fnArg gave, by name

vars == <<now, path, pc, maxRetries, attempt, lastSignedPayment,
          lastPaymentRequest, paymentRequest, configs, originalRequest,
          paymentAttempted, sent, received, handledAt, signerCalls,
          result, fnArg, fnOut>>

\* The state of the two orchestration paths, and of the direct calls.
flowVars == <<now, path, pc, maxRetries, attempt, lastSignedPayment,
              lastPaymentRequest, paymentRequest, configs, originalRequest,
              paymentAttempted, sent, received, handledAt, signerCalls,
              result>>
pureVars == <<fnArg, fnOut>>

NoHeaders == [XPAYMENT |-> None, XPAYMENTTOKENTYPE |-> None]

\* No request has been issued yet.
NoRequests ==
  /\ now = 0
  /\ path = [p \in Procs |-> "none"]
  /\ pc = [p \in Procs |-> "idle"]
  /\ maxRetries = [p \in Procs |-> 0]
  /\ attempt = [p \in Procs |-> 0]
  /\ lastSignedPayment = [p \in Procs |-> None]
  /\ lastPaymentRequest = [p \in Procs |-> None]
  /\ paymentRequest = [p \in Procs |-> None]
  /\ configs = [p \in Procs |-> <<>>]
  /\ originalRequest = [p \in Procs |-> 0]
  /\ paymentAttempted = {}
  /\ sent = [p \in Procs |-> <<>>]
  /\ received = [p \in Procs |-> <<>>]
  /\ handledAt = [p \in Procs |-> 0]
  /\ signerCalls = [p \in Procs |-> <<>>]
  /\ result = [p \in Procs |-> None]

\* No library function has been called directly.
NoOutputs == <<>>

Init ==
  /\ NoRequests
  /\ fnArg = None
  /\ fnOut = NoOutputs

\* Time passes.
Tick ==
  /\ now < MaxTime
  /\ now' = now + 1
  /\ UNCHANGED pureVars
  /\ UNCHANGED <<path, pc, maxRetries, attempt, lastSignedPayment,
                 lastPaymentRequest, paymentRequest, configs, originalRequest,
                 paymentAttempted, sent, received, handledAt, signerCalls,
                 result>>

\* Log entries.
Transmission(h, passed, reported, k) ==
  [headers |-> h, config |-> passed, reported |-> reported, after |-> k]
SignerCall(k, body, res) ==
  [for |-> k, request |-> body, result |-> res, sdk |-> None]

Finish(p, outcome) ==
  /\ pc' = [pc EXCEPT ![p] = "done"]
  /\ result' = [result EXCEPT ![p] = Some(outcome)]

\* The handler reaches await signPayment(paymentRequest).
BeginSigning(p, body) ==
  /\ pc' = [pc EXCEPT ![p] = "signing"]
  /\ paymentRequest' = [paymentRequest EXCEPT ![p] = Some(body)]
  /\ signerCalls' = [signerCalls EXCEPT
                       ![p] = Append(@, SignerCall(Len(received[p]) + 1, body, None))]
  /\ UNCHANGED result

EndSigning(p, res, sdk) ==
  signerCalls' = [signerCalls EXCEPT
                    ![p][Len(signerCalls[p])].result = Some(res),
                    ![p][Len(signerCalls[p])].sdk = Some(sdk)]

\* ------------------------------------------------- requestWithPayment
\* Mutant of whileCondition: one iteration too many.
whileConditionOffByOne(att, maxR) == att <= maxR + 1

\* while (attempt <= maxRetries)
whileCondition(att, maxR) == att <= maxR

\* Mutant of incrementAttempt: a signing counts for two.
incrementAttemptTwice(att) == att + 2

\* attempt++
incrementAttempt(att) == att + 1

\* Mutant of requestHeaders: the token-type header is forgotten.
requestHeadersWithoutTokenType(headers, lastSigned, lastRequest) ==
  IF lastSigned # None /\ lastRequest # None
    THEN [headers EXCEPT !.XPAYMENT = lastSigned]
    ELSE headers

\* const requestHeaders = { ...headers }, plus the payment headers when a
\* signed payment is at hand.
requestHeaders(headers, lastSigned, lastRequest) ==
  IF lastSigned # None /\ lastRequest # None
    THEN [headers EXCEPT !.XPAYMENT = lastSigned,
                         !.XPAYMENTTOKENTYPE = Some(tokenTypeOrSTX(lastRequest[1]))]
    ELSE headers

\* Mutant of nextLastSignedPayment: the first artifact is kept.
keepFirstSignedPayment(previous, signResult) ==
  IF previous # None THEN previous ELSE signResult.signedTransaction

\* lastSignedPayment = signResult.signedTransaction
nextLastSignedPayment(previous, signResult) == signResult.signedTransaction

\* Mutant of nextLastPaymentRequest: the first payment request is kept.
keepFirstPaymentRequest(previous, request) ==
  IF previous # None THEN previous ELSE Some(request)

\* lastPaymentRequest = paymentRequest
nextLastPaymentRequest(previous, request) == Some(request)

\* Mutant of optionsHeaders: requestHeaders is the caller's object itself,
\* so what is written into it shows in the caller's object.
optionsHeadersShared(headers, lastSigned, lastRequest) ==
  requestHeaders(headers, lastSigned, lastRequest)

\* The caller's headers object after const requestHeaders = { ...headers }
\* and the writes into requestHeaders: the spread made a copy, the caller's
\* object holds what it held.
optionsHeaders(headers, lastSigned, lastRequest) == headers

\* One pass through the loop head up to the await of httpClient.request,
\* or the throw after the loop.  headers is the caller's headers object.
LoopHead(p, att, lastSigned, lastRequest, maxR, k, headers) ==
  IF whileCondition(att, maxR)
    THEN /\ sent' = [sent EXCEPT ![p] =
                       Append(@, Transmission(
                                   requestHeaders(headers, lastSigned, lastRequest),
                                   0, 0, k))]
         /\ configs' = [configs EXCEPT ![p] =
                          <<optionsHeaders(headers, lastSigned, lastRequest)>>]
         /\ pc' = [pc EXCEPT ![p] = "awaitResponse"]
         /\ UNCHANGED result
    ELSE /\ Finish(p, Threw(NewError(MsgMaxRetries)))
         /\ configs' = [configs EXCEPT ![p] = <<headers>>]
         /\ UNCHANGED sent

\* A caller invokes requestWithPayment(url, {maxRetries: n, headers: {}}),
\* or leaves headers to its default {}.
requestWithPayment(p, n) ==
  /\ pc[p] = "idle"
  /\ path' = [path EXCEPT ![p] = "call"]
  /\ maxRetries' = [maxRetries EXCEPT ![p] = n]
  /\ attempt' = [attempt EXCEPT ![p] = 0]
  /\ lastSignedPayment' = [lastSignedPayment EXCEPT ![p] = None]
  /\ lastPaymentRequest' = [lastPaymentRequest EXCEPT ![p] = None]
  /\ LoopHead(p, 0, None, None, n, 0, NoHeaders)
  /\ UNCHANGED pureVars
  /\ UNCHANGED <<now, paymentRequest, originalRequest,
                 paymentAttempted, received, handledAt, signerCalls>>

\* Mutant of catchBlock: every error that has a response is taken for a
\* 402, the status is not looked at.
catchBlockAnyResponse(resp, clock) ==
  IF resp.status = 0 THEN "rethrow"
  ELSE IF isValidPaymentRequest(resp.data) = "TypeError" THEN "TypeError"
  ELSE IF isValidPaymentRequest(resp.data) # "true" THEN "invalid"
  ELSE IF clientExpired(resp.data, clock) THEN "expired"
  ELSE "sign"

\* What the catch block does with a rejected request, up to the await of
\* the signer: "rethrow", "TypeError", "invalid", "expired" or "sign".
catchBlock(resp, clock) ==
  IF resp.status # 402 THEN "rethrow"
  ELSE IF isValidPaymentRequest(resp.data) = "TypeError" THEN "TypeError"
  ELSE IF isValidPaymentRequest(resp.data) # "true" THEN "invalid"
  ELSE IF clientExpired(resp.data, clock) THEN "expired"
  ELSE "sign"

\* The HTTP client settles the request of a requestWithPayment call.
clientResponse(p, resp) ==
  /\ pc[p] = "awaitResponse"
  /\ path[p] = "call"
  /\ received' = [received EXCEPT ![p] = Append(@, resp)]
  /\ handledAt' = [handledAt EXCEPT ![p] = IF resp.status = 402 THEN now ELSE @]
  /\ IF ~IsError(resp)
       THEN /\ Finish(p, Returned(resp.data))
            /\ UNCHANGED <<paymentRequest, signerCalls>>
     ELSE LET todo == catchBlock(resp, now) IN
       IF todo = "sign"
         THEN BeginSigning(p, resp.data)
         ELSE /\ Finish(p, Threw(
                   CASE todo = "rethrow" -> HttpError(p, Len(sent[p]), resp)
                     [] todo = "TypeError" ->
                          TypeError("Cannot read properties of null")
                     [] todo = "invalid" -> NewError(MsgInvalid)
                     [] todo = "expired" -> NewError(MsgExpired)))
              /\ UNCHANGED <<paymentRequest, signerCalls>>
  /\ UNCHANGED pureVars
  /\ UNCHANGED <<now, path, maxRetries, attempt, lastSignedPayment,
                 lastPaymentRequest, configs, originalRequest,
                 paymentAttempted, sent>>

\* await this.signPayment(paymentRequest) settles; the loop goes on to the
\* next request or ends.
clientSigned(p, sdk) ==
  /\ pc[p] = "signing"
  /\ path[p] = "call"
  /\ LET signResult == signPayment(paymentRequest[p][1], p, Len(signerCalls[p]), sdk)
     IN /\ EndSigning(p, signResult, sdk)
        /\ IF ~signResult.success
             THEN /\ Finish(p, Threw(NewError(MsgSigning \o signResult.error[1])))
                  /\ UNCHANGED <<attempt, lastSignedPayment, lastPaymentRequest,
                                 sent, configs>>
             ELSE LET lsp == nextLastSignedPayment(lastSignedPayment[p], signResult)
                      lpr == nextLastPaymentRequest(lastPaymentRequest[p],
                                                    paymentRequest[p][1])
                  IN /\ lastSignedPayment' = [lastSignedPayment EXCEPT ![p] = lsp]
                     /\ lastPaymentRequest' = [lastPaymentRequest EXCEPT ![p] = lpr]
                     /\ attempt' = [attempt EXCEPT ![p] = incrementAttempt(@)]
                     /\ LoopHead(p, incrementAttempt(attempt[p]), lsp, lpr,
                                 maxRetries[p], Len(received[p]), configs[p][1])
  /\ UNCHANGED pureVars
  /\ UNCHANGED <<now, path, maxRetries, paymentRequest,
                 originalRequest, paymentAttempted, received, handledAt>>

\* --------------------------------------------- wrapAxiosWithPaymentV1
\* The application issues a request through the wrapped instance: the
\* HTTP client creates its config object (number 1) and transmits it.
axiosRequest(p) ==
  /\ pc[p] = "idle"
  /\ path' = [path EXCEPT ![p] = "axios"]
  /\ configs' = [configs EXCEPT ![p] = <<NoHeaders>>]
  /\ originalRequest' = [originalRequest EXCEPT ![p] = 1]
  /\ sent' = [sent EXCEPT ![p] = Append(@, Transmission(NoHeaders, 1, 1, 0))]
  /\ pc' = [pc EXCEPT ![p] = "awaitResponse"]
  /\ UNCHANGED pureVars
  /\ UNCHANGED <<now, maxRetries, attempt, lastSignedPayment,
                 lastPaymentRequest, paymentRequest, paymentAttempted,
                 received, handledAt, signerCalls, result>>

\* Mutant of hasPaymentAttempted: one flag for all requests.
hasAnyPaymentAttempted(marked, p, config) == marked # {}

\* paymentAttempted.has(originalRequest)
hasPaymentAttempted(marked, p, config) == <<p, config>> \in marked

\* paymentAttempted.add(originalRequest)
addPaymentAttempted(marked, p, config) == marked \cup {<<p, config>>}

\* What the rejection handler does with an error whose config is config,
\* up to the await of the signer: "reject" (the same error), "attempted",
\* "invalid", "expired" or "sign".
onRejected(resp, marked, p, config, clock) ==
  IF resp.status # 402 THEN "reject"
  ELSE IF hasPaymentAttempted(marked, p, config) THEN "attempted"
  ELSE IF isValidPaymentRequestV1(resp.data) # "true" THEN "invalid"
  ELSE IF interceptorExpired(resp.data, clock) THEN "expired"
  ELSE "sign"

\* Mutant of markedAfter: the marker is set only for a body that passes
\* validation.
markedAfterValidation(resp, marked, p, config) ==
  IF /\ resp.status = 402
     /\ ~hasPaymentAttempted(marked, p, config)
     /\ isValidPaymentRequestV1(resp.data) = "true"
    THEN addPaymentAttempted(marked, p, config)
    ELSE marked

\* The marker set after the handler has run.
markedAfter(resp, marked, p, config) ==
  IF resp.status = 402 /\ ~hasPaymentAttempted(marked, p, config)
    THEN addPaymentAttempted(marked, p, config)
    ELSE marked

\* Mutant of returnRetry: the retry is awaited inside the try block, so
\* its rejection is caught and reported as a signing failure.
returnRetryAwaited(outcome) ==
  IF outcome.kind = "threw"
    THEN Threw(NewError(MsgSigning \o outcome.error[1].message))
    ELSE outcome

\* return axiosInstance.request(originalRequest): the promise of the retry
\* is returned without await, so the handler's promise takes its outcome
\* and the catch clause does not see its rejection.
returnRetry(outcome) == outcome

\* How the request of the application settles when the request just
\* settled (the latest one sent) settles with outcome: the outcome itself
\* for the first request, and for a retry what the handler that issued it
\* returns.
requestOutcome(p, outcome) ==
  IF Len(sent[p]) > 1 THEN returnRetry(outcome) ELSE outcome

\* The HTTP client settles a request of the wrapped instance and runs the
\* response interceptor on it.
interceptorResponse(p, resp) ==
  /\ pc[p] = "awaitResponse"
  /\ path[p] = "axios"
  /\ received' = [received EXCEPT ![p] = Append(@, resp)]
  /\ handledAt' = [handledAt EXCEPT ![p] = IF resp.status = 402 THEN now ELSE @]
  /\ IF ~IsError(resp)
       THEN /\ Finish(p, requestOutcome(p, Returned(resp)))
            /\ UNCHANGED <<paymentRequest, signerCalls, paymentAttempted>>
     ELSE LET todo == onRejected(resp, paymentAttempted, p, originalRequest[p], now)
          IN /\ paymentAttempted' =
                  markedAfter(resp, paymentAttempted, p, originalRequest[p])
             /\ IF todo = "sign"
                  THEN BeginSigning(p, resp.data)
                  ELSE /\ Finish(p, requestOutcome(p, Threw(
                            CASE todo = "reject" -> HttpError(p, Len(sent[p]), resp)
                              [] todo = "attempted" -> NewError(MsgAttempted)
                              [] todo = "invalid" -> NewError(MsgInvalid)
                              [] todo = "expired" -> NewError(MsgExpired))))
                       /\ UNCHANGED <<paymentRequest, signerCalls>>
  /\ UNCHANGED pureVars
  /\ UNCHANGED <<now, path, maxRetries, attempt, lastSignedPayment,
                 lastPaymentRequest, configs, originalRequest, sent>>

\* originalRequest.headers['X-PAYMENT'] = ...; ['X-PAYMENT-TOKEN-TYPE'] = ...
paymentHeaders(headers, signedTransaction, request) ==
  [headers EXCEPT !.XPAYMENT = Some(signedTransaction),
                  !.XPAYMENTTOKENTYPE = Some(tokenTypeOrSTX(request))]

\* await signPayment(paymentRequest, account) settles in the interceptor.
\* On success the headers are set on originalRequest and it is handed to
\* axiosInstance.request; sameConfig says whether the HTTP client reports
\* that very object as the config of the retry, or a merged copy of it.
interceptorSigned(p, sdk, sameConfig) ==
  /\ pc[p] = "signing"
  /\ path[p] = "axios"
  /\ sameConfig \/ Len(configs[p]) < MaxConfigs
  /\ LET signResult ==
           awaitSignPaymentV1(paymentRequest[p][1], account(p), p,
                              Len(signerCalls[p]), sdk)
         c == originalRequest[p]
     IN /\ EndSigning(p, signResult, sdk)
        /\ IF ~signResult.success
             THEN /\ Finish(p, requestOutcome(p,
                      Threw(NewError(MsgSigning \o signResult.error[1]))))
                  /\ UNCHANGED <<configs, originalRequest, sent>>
             ELSE LET h == paymentHeaders(configs[p][c],
                                          signResult.signedTransaction[1],
                                          paymentRequest[p][1])
                      reported == IF sameConfig THEN c ELSE Len(configs[p]) + 1
                  IN /\ configs' = [configs EXCEPT ![p] =
                                      IF sameConfig THEN [@ EXCEPT ![c] = h]
                                      ELSE Append([@ EXCEPT ![c] = h], h)]
                     /\ originalRequest' = [originalRequest EXCEPT ![p] = reported]
                     /\ sent' = [sent EXCEPT ![p] =
                                   Append(@, Transmission(h, c, reported,
                                                          Len(received[p])))]
                     /\ pc' = [pc EXCEPT ![p] = "awaitResponse"]
                     /\ UNCHANGED result
  /\ UNCHANGED pureVars
  /\ UNCHANGED <<now, path, maxRetries, attempt, lastSignedPayment,
                 lastPaymentRequest, paymentRequest, paymentAttempted,
                 received, handledAt>>

\* ------------------------------------------------------ specifications
\* const { ..., maxRetries = 1 } = options
DefaultMaxRetries == 1

CallStep(p, retries, resps, sdks) ==
  \/ \E n \in retries : requestWithPayment(p, n)
  \/ \E resp \in resps : clientResponse(p, resp)
  \/ \E sdk \in sdks : clientSigned(p, sdk)

AxiosStep(p, resps, sdks) ==
  \/ axiosRequest(p)
  \/ \E resp \in resps : interceptorResponse(p, resp)
  \/ \E sdk \in sdks, sameConfig \in BOOLEAN :
        interceptorSigned(p, sdk, sameConfig)

\* One operation of the application, against any server.
Next ==
  \/ Tick
  \/ \E p \in SeqProcs :
        \/ CallStep(p, 0..MaxRetriesBound, Responses, SdkOutcomes)
        \/ AxiosStep(p, Responses, SdkOutcomes)

Spec == Init /\ [][Next]_vars

\* Two operations of the application in flight at the same time, on the
\* same client and the same wrapped instance, with the default maxRetries
\* and offers that do not expire.
NextConc ==
  \E p \in Procs :
    \/ CallStep(p, {DefaultMaxRetries}, ConcResponses, {"ok", "buildFails"})
    \/ AxiosStep(p, ConcResponses, {"ok", "buildFails"})

SpecConc == Init /\ [][NextConc]_vars

\* ================================================================ claims
Last(seq) == seq[Len(seq)]

Calls == {p \in Procs : path[p] = "call"}
Wrapped == {p \in Procs : path[p] = "axios"}

\* The signer call made for the k-th response of p succeeded.
SignedFor(p, k) ==
  \E i \in DOMAIN signerCalls[p] :
    /\ signerCalls[p][i].for = k
    /\ signerCalls[p][i].result # None
    /\ signerCalls[p][i].result[1].success

\* The artifact signed for the k-th response of p.
ArtifactFor(p, k) ==
  LET i == CHOOSE i \in DOMAIN signerCalls[p] : signerCalls[p][i].for = k
  IN signerCalls[p][i].result[1].signedTransaction

\* Every response p received was a 402 with the six fields, and the signer
\* succeeded for each of them.
EverySignable402(p) ==
  \A k \in DOMAIN received[p] :
    /\ received[p][k].status = 402
    /\ received[p][k].data.json = "object"
    /\ SixStrings(received[p][k].data)
    /\ SignedFor(p, k)

\* The token type named by a 402 body, STX when it names none.
HeaderTokenType(body) ==
  IF body.tokenType \in {Absent, ""} THEN "STX" ELSE body.tokenType

\* C1: one call to requestWithPayment with maxRetries = n issues at most
\* n + 1 requests; when every response is a valid, unexpired 402 that is
\* signed successfully, it issues exactly n + 1 requests and then throws
\* 'Max retries exceeded for payment request'.
C1_AtMostNPlusOneRequests ==
  \A p \in Calls :
    /\ Len(sent[p]) <= maxRetries[p] + 1
    /\ (pc[p] = "done" /\ EverySignable402(p))
         => /\ Len(sent[p]) = maxRetries[p] + 1
            /\ result[p] = Some(Threw(NewError(MsgMaxRetries)))

\* C1 witness: the default maxRetries = 1, two 402 answers, two requests,
\* and the call has ended with the max-retries error.
C1_Witness ==
  \E p \in Calls :
    /\ maxRetries[p] = DefaultMaxRetries
    /\ pc[p] = "done"
    /\ EverySignable402(p)
    /\ Len(sent[p]) = 2
    /\ result[p] = Some(Threw(NewError(MsgMaxRetries)))

\* C2: in the interceptor a 402 for a request whose marker is set is
\* rejected with 'Payment already attempted for this request' and is
\* neither signed nor re-issued; hence each original request is signed at
\* most once and transmitted at most twice, whatever the server answers.
C2_SignedOnceSentTwice ==
  \A p \in Wrapped :
    /\ (result[p] = Some(Threw(NewError(MsgAttempted))))
         => /\ ~\E i \in DOMAIN signerCalls[p] :
                   signerCalls[p][i].for = Len(received[p])
            /\ ~\E j \in DOMAIN sent[p] : sent[p][j].after = Len(received[p])
    /\ Len(signerCalls[p]) <= 1
    /\ Len(sent[p]) <= 2

\* C3: when the first response of requestWithPayment is a valid, unexpired
\* 402, signing succeeds and the retried request gets a non-error
\* response, the call issues exactly two requests, the second carries
\* X-PAYMENT = the signed artifact and X-PAYMENT-TOKEN-TYPE (STX when the
\* 402 named no token type), and the call returns the second body.
C3_PaidRetryReturnsSecondBody ==
  \A p \in Calls :
    (/\ pc[p] = "done"
     /\ Len(received[p]) = 2
     /\ received[p][1].status = 402
     /\ SignedFor(p, 1)
     /\ ~IsError(received[p][2]))
    => /\ Len(sent[p]) = 2
       /\ sent[p][1].headers = NoHeaders
       /\ sent[p][2].headers.XPAYMENT = ArtifactFor(p, 1)
       /\ sent[p][2].headers.XPAYMENTTOKENTYPE =
            Some(HeaderTokenType(received[p][1].data))
       /\ (received[p][1].data.tokenType = Absent
             => sent[p][2].headers.XPAYMENTTOKENTYPE = Some("STX"))
       /\ result[p] = Some(Returned(received[p][2].data))

\* C3 witness: scenario A, 402 without token type, then 200 {ok: true}.
C3_Witness ==
  \E p \in Calls :
    /\ pc[p] = "done"
    /\ received[p] = <<Response(402, BaseBody), Response(200, OkBody)>>
    /\ Len(sent[p]) = 2
    /\ sent[p][2].headers.XPAYMENTTOKENTYPE = Some("STX")
    /\ result[p] = Some(Returned(OkBody))

\* The instant a 402 body names lies before / not after the instant t.
ExpiresBefore(body, t) ==
  \E ms \in Instants : toISOString(ms) = body.expiresAt /\ ms < t
ExpiresAfter(body, t) ==
  \E ms \in Instants : toISOString(ms) = body.expiresAt /\ ms > t

\* No signer call and no transmission followed the latest response of p.
NothingAfterLatest(p) ==
  /\ ~\E i \in DOMAIN signerCalls[p] : signerCalls[p][i].for = Len(received[p])
  /\ ~\E j \in DOMAIN sent[p] : sent[p][j].after = Len(received[p])

\* The latest response of p is a 402 whose expiresAt was in the past when
\* the handler ran.
LatestIsExpired402(p) ==
  /\ received[p] # <<>>
  /\ Last(received[p]).status = 402
  /\ ExpiresBefore(Last(received[p]).data, handledAt[p])

\* The request that the latest response answers was a retry for which the
\* HTTP client reported the config object that is already marked.
AnswersMarkedRetry(p) ==
  /\ Len(sent[p]) > 1
  /\ Last(sent[p]).reported = Last(sent[p]).config

\* C4 as stated: in both paths every 402 body (a well-formed payment
\* request) whose expiresAt lies in the past ends the call with 'Payment
\* request has expired', without a signer call and without a retried
\* request for that 402.
C4_ExpiredAlwaysReportedAsExpired ==
  \A p \in Procs :
    (/\ LatestIsExpired402(p)
     /\ Last(received[p]).data.json = "object"
     /\ SixStrings(Last(received[p]).data))
      => /\ result[p] = Some(Threw(NewError(MsgExpired)))
         /\ NothingAfterLatest(p)

\* C4 amended: a 402 body whose expiresAt lies in the past never reaches
\* the signer and is never followed by a retried request, in both paths;
\* the call ends, with 'Payment request has expired' when the body passes
\* validation and, in the interceptor, the request's marker was not set
\* (a marked request is rejected with 'Payment already attempted ...'
\* before the body is looked at).
C4_ExpiredNeverSigned ==
  \A p \in Procs :
    LatestIsExpired402(p)
      => /\ pc[p] = "done"
         /\ NothingAfterLatest(p)
         /\ result[p] # None /\ result[p][1].kind = "threw"
         /\ LET body == Last(received[p]).data
                err == result[p][1].error[1]
            IN IF p \in Wrapped /\ AnswersMarkedRetry(p)
                 THEN err = NewError(MsgAttempted)
               ELSE IF body.json = "object" /\ SixStrings(body)
                 THEN err = NewError(MsgExpired)
               ELSE err = NewError(MsgInvalid)

\* C4 witness: a paid retry of requestWithPayment is answered by a 402
\* that has expired in the meantime; the call ends with the expiry error
\* after one signing and two requests.
C4_Witness ==
  \E p \in Calls :
    /\ LatestIsExpired402(p)
    /\ Len(received[p]) = 2
    /\ Len(signerCalls[p]) = 1
    /\ Len(sent[p]) = 2
    /\ result[p] = Some(Threw(NewError(MsgExpired)))

\* C5: in both paths the signer is invoked for a 402 body only if its
\* expiresAt parses to an instant strictly after the current time.
C5_SignedOnlyIfStrictlyUnexpired ==
  \A p \in Procs :
    pc[p] = "signing" => ExpiresAfter(paymentRequest[p][1], handledAt[p])

\* The payment headers of the j-th transmission of p are those of the
\* signing done for the response that came just before it.
CarriesOwnPayment(p, j) ==
  /\ j > 1
  /\ received[p][j - 1].status = 402
  /\ SignedFor(p, j - 1)
  /\ sent[p][j].headers.XPAYMENT = ArtifactFor(p, j - 1)
  /\ sent[p][j].headers.XPAYMENT[1].by = p
  /\ sent[p][j].headers.XPAYMENT[1].tx.senderKey = privateKey(p)
  /\ sent[p][j].headers.XPAYMENTTOKENTYPE =
       Some(HeaderTokenType(received[p][j - 1].data))

\* p got one 402, signed it successfully, and its retry was answered 200.
OnePaidCycle(p) ==
  /\ pc[p] = "done"
  /\ Len(received[p]) = 2
  /\ received[p][1].status = 402
  /\ SignedFor(p, 1)
  /\ received[p][2].status = 200

\* C6: concurrent payment cycles are independent.  With two operations in
\* flight on the same client and the same wrapped instance, under every
\* interleaving: a request's first 402 is never rejected as already
\* attempted, a first request carries no payment headers, every later one
\* carries the sender's own artifact for its own latest 402, a call's
\* attempt counter counts its own signings only, and an operation that
\* gets one 402 and then 200 signs exactly once, sends exactly twice and
\* succeeds.
C6_ConcurrentCyclesIndependent ==
  \A p \in Procs :
    /\ \A j \in DOMAIN sent[p] :
         IF j = 1 THEN sent[p][j].headers = NoHeaders ELSE CarriesOwnPayment(p, j)
    /\ (p \in Wrapped /\ Len(sent[p]) = 1)
         => result[p] # Some(Threw(NewError(MsgAttempted)))
    /\ p \in Calls
         => /\ attempt[p] = Cardinality({k \in DOMAIN received[p] : SignedFor(p, k)})
            /\ (result[p] = Some(Threw(NewError(MsgMaxRetries))))
                 => attempt[p] = maxRetries[p] + 1
    /\ OnePaidCycle(p)
         => /\ Len(signerCalls[p]) = 1
            /\ Len(sent[p]) = 2
            /\ result[p] = Some(Returned(IF p \in Calls THEN received[p][2].data
                                         ELSE received[p][2]))

\* C6 witness: two requests through the same wrapped instance, both paid
\* retries in flight at the same time, each with its own artifact.
C6_Witness ==
  /\ Wrapped = Procs
  /\ \A p \in Procs :
       /\ pc[p] = "awaitResponse"
       /\ Len(sent[p]) = 2
       /\ CarriesOwnPayment(p, 2)
  /\ Cardinality(paymentAttempted) = 2

\* C7: in requestWithPayment each signed artifact is attached to at most
\* one request; a request after the first is issued only after a fresh
\* validation, expiry check and successful signing of the 402 that
\* answered the one before it, and only while attempt <= maxRetries.
C7_OneRequestPerArtifact ==
  \A p \in Calls :
    /\ \A i, j \in DOMAIN sent[p] :
         (i < j /\ sent[p][i].headers.XPAYMENT # None)
           => sent[p][j].headers.XPAYMENT # sent[p][i].headers.XPAYMENT
    /\ \A j \in DOMAIN sent[p] :
         j > 1 => /\ received[p][j - 1].status = 402
                  /\ SixStrings(received[p][j - 1].data)
                  /\ (Len(received[p]) = j - 1
                        => ~ExpiresBefore(received[p][j - 1].data, handledAt[p]))
                  /\ SignedFor(p, j - 1)
                  /\ sent[p][j].headers.XPAYMENT[1].seq = j - 1
                  /\ j - 1 <= maxRetries[p]

\* C7 witness: three requests of one call, the second and the third with
\* different artifacts.
C7_Witness ==
  \E p \in Calls :
    /\ Len(sent[p]) = 3
    /\ sent[p][2].headers.XPAYMENT # None
    /\ sent[p][3].headers.XPAYMENT # None
    /\ sent[p][2].headers.XPAYMENT # sent[p][3].headers.XPAYMENT

\* C8: a request of requestWithPayment carries X-PAYMENT and
\* X-PAYMENT-TOKEN-TYPE exactly when an earlier iteration of the same call
\* signed successfully; X-PAYMENT is then the artifact signed for the
\* immediately preceding 402 and the token type is that of the same 402
\* body; the first request carries neither.
C8_HeadersIffSignedBefore ==
  \A p \in Calls :
    \A j \in DOMAIN sent[p] :
      LET h == sent[p][j].headers
          signedBefore == \E k \in 1..(j - 1) : SignedFor(p, k)
      IN /\ (h.XPAYMENT # None) <=> signedBefore
         /\ (h.XPAYMENTTOKENTYPE # None) <=> signedBefore
         /\ signedBefore
              => /\ h.XPAYMENT = ArtifactFor(p, j - 1)
                 /\ h.XPAYMENT[1].tx.variant =
                      (IF received[p][j - 1].data.tokenType \in {"sBTC", "USDCx"}
                         THEN "contract_call" ELSE "token_transfer")
                 /\ h.XPAYMENTTOKENTYPE =
                      Some(HeaderTokenType(received[p][j - 1].data))
         /\ j = 1 => h = NoHeaders

\* C8 witness: the first 402 asks for sBTC, the second names no token
\* type; the third request says STX.
C8_Witness ==
  \E p \in Calls :
    /\ Len(sent[p]) = 3
    /\ received[p][1].data.tokenType = "sBTC"
    /\ received[p][2].data.tokenType = Absent
    /\ sent[p][2].headers.XPAYMENTTOKENTYPE = Some("sBTC")
    /\ sent[p][3].headers.XPAYMENTTOKENTYPE = Some("STX")

\* C9: on every retried request, in both paths, X-PAYMENT-TOKEN-TYPE is one
\* of STX, sBTC, USDCx, and is STX when the 402 body carried no tokenType.
C9_TokenTypeHeaderIsKnown ==
  \A p \in Procs :
    \A j \in DOMAIN sent[p] :
      j > 1 => /\ sent[p][j].headers.XPAYMENTTOKENTYPE # None
               /\ sent[p][j].headers.XPAYMENTTOKENTYPE[1] \in {"STX", "sBTC", "USDCx"}
               /\ (received[p][j - 1].data.tokenType = Absent
                     => sent[p][j].headers.XPAYMENTTOKENTYPE = Some("STX"))

\* The latest response of p is a failure of the HTTP client that is no 402.
LatestIsOtherFailure(p) ==
  /\ received[p] # <<>>
  /\ Last(received[p]).status \notin {200, 402}

\* C10: a failure of the HTTP client that is not a 402 response ends the
\* call with that very error object, in both paths and also for a retried
\* request that carries a payment: no signer call and no request follow
\* it, and it sets no marker.
C10_OtherFailuresPropagate ==
  \A p \in Procs :
    /\ LatestIsOtherFailure(p)
         => /\ pc[p] = "done"
            /\ result[p] = Some(Threw(HttpError(p, Len(sent[p]), Last(received[p]))))
            /\ NothingAfterLatest(p)
    /\ Cardinality({m \in paymentAttempted : m[1] = p})
         <= Cardinality({k \in DOMAIN received[p] : received[p][k].status = 402})

\* C10 witness: the paid retry of a requestWithPayment call fails with a
\* 500, and the call has thrown the error of that second request.
C10_Witness ==
  \E p \in Calls :
    /\ Len(sent[p]) = 2
    /\ sent[p][2].headers.XPAYMENT # None
    /\ Last(received[p]) = Response(500, TextBody)
    /\ result[p] = Some(Threw(HttpError(p, 2, Response(500, TextBody))))

\* The six fields every payment request has to carry as strings.
RequiredFields ==
  {"maxAmountRequired", "resource", "payTo", "network", "nonce", "expiresAt"}

\* A body is a PaymentRequest: a mapping with the six string fields whose
\* network is mainnet or testnet.
IsPaymentRequest(body) ==
  /\ body.json = "object"
  /\ \A f \in RequiredFields : body[f] \notin {Absent, NonString}
  /\ body.network \in {"mainnet", "testnet"}

\* C11: in requestWithPayment a 402 whose body is no valid PaymentRequest
\* (a field missing or no string, a wrong network, a body that is null or
\* no mapping) ends the call with 'Invalid x402 payment request from
\* server'; the signer is not called for it, no request follows it and
\* the attempt counter is not advanced.
C11_InvalidBodyEndsCallAsInvalid ==
  \A p \in Calls :
    (/\ received[p] # <<>>
     /\ Last(received[p]).status = 402
     /\ ~IsPaymentRequest(Last(received[p]).data))
    => /\ pc[p] = "done"
       /\ result[p] = Some(Threw(NewError(MsgInvalid)))
       /\ NothingAfterLatest(p)
       /\ attempt[p] = Len(received[p]) - 1

\* ================================================ functions called directly
\* A library function is applied to fnArg and its result is kept in
\* fnOut under the function's name.
Applied(name) == name \in DOMAIN fnOut
Store(out, name, value) == out @@ (name :> value)

\* ------------------------------------------------------- the validators
ArrayBody == [EmptyObject EXCEPT !.json = "array"]

\* The values handed to a validator: null, a string, an array, and the
\* mappings that have or lack each of the fields.
Candidates ==
  {NullBody, TextBody, ArrayBody}
  \cup
  [json : {"object"}, ok : {Absent},
   maxAmountRequired : {"1000000", Absent, NonString},
   resource : {"/resource", Absent, NonString},
   payTo : {"ST-PAYEE", Absent, NonString},
   network : {"mainnet", "testnet", "devnet", Absent, NonString},
   nonce : {"abc123", Absent, NonString},
   expiresAt : {FarFuture, Absent, NonString},
   tokenType : {Absent, "DOGE"},
   tokenContract : {Absent, TokenContractValue}]

InitValidator ==
  /\ NoRequests
  /\ fnArg \in Candidates
  /\ fnOut = NoOutputs

\* this.isValidPaymentRequest(fnArg), as requestWithPayment calls it.
callIsValidPaymentRequest ==
  /\ ~Applied("isValidPaymentRequest")
  /\ fnOut' = Store(fnOut, "isValidPaymentRequest", isValidPaymentRequest(fnArg))
  /\ UNCHANGED fnArg
  /\ UNCHANGED flowVars

\* isValidPaymentRequest(fnArg), as the interceptor calls it.
callIsValidPaymentRequestV1 ==
  /\ ~Applied("isValidPaymentRequestV1")
  /\ fnOut' = Store(fnOut, "isValidPaymentRequestV1", isValidPaymentRequestV1(fnArg))
  /\ UNCHANGED fnArg
  /\ UNCHANGED flowVars

NextValidator ==
  \/ callIsValidPaymentRequest
  \/ callIsValidPaymentRequestV1

SpecValidator == InitValidator /\ [][NextValidator]_vars

\* C12: each validator accepts exactly the mappings that carry the six
\* string fields with network mainnet or testnet, whatever tokenType and
\* tokenContract are, and for every other input, null and values that are
\* no mapping included, it returns 'invalid' as a value and does not throw.
C12_ValidatorsDecideWithoutThrowing ==
  \A name \in DOMAIN fnOut \cap {"isValidPaymentRequest", "isValidPaymentRequestV1"} :
    fnOut[name] = IF IsPaymentRequest(fnArg) THEN "true" ELSE "false"

\* ------------------------------------------------- the broadcasting path
\* What the node answers to broadcastTransaction: it accepts the
\* transaction, it rejects it, or it cannot be reached.
BroadcastOutcomes == {"accepted", "rejected", "unreachable"}

MsgRejected == "transaction rejected"
MsgUnreachable == "fetch failed"

\* The identifier the node gives to a transaction.
txidOf(tx) == [txid |-> tx]

\* broadcastTransaction({transaction, network}): the response of the node,
\* or what it throws.
broadcastTransaction(tx, net) ==
  IF net = "accepted" THEN [txid |-> Some(txidOf(tx)), error |-> None]
  ELSE IF net = "rejected" THEN [txid |-> Some(txidOf(tx)), error |-> Some(MsgRejected)]
  ELSE Thrown(MsgUnreachable)

\* The PaymentResult objects of send*Transfer and makePayment.
PaymentFailure(msg) ==
  [success |-> FALSE, txId |-> None, txRaw |-> None, error |-> Some(msg)]

\* Mutant of broadcastResult: the error of the response is not looked at.
broadcastResultIgnoringError(tx, p, k, net) ==
  LET broadcastResponse == broadcastTransaction(tx, net)
  IN IF IsThrown(broadcastResponse) THEN PaymentFailure(broadcastResponse.thrown)
     ELSE [success |-> TRUE, txId |-> broadcastResponse.txid,
           txRaw |-> Some(serialize(tx, p, k)), error |-> None]

\* The end of every send*Transfer: the transaction is broadcast, and the
\* result is made from the response; a throw is caught by the method.
broadcastResult(tx, p, k, net) ==
  LET broadcastResponse == broadcastTransaction(tx, net)
  IN IF IsThrown(broadcastResponse) THEN PaymentFailure(broadcastResponse.thrown)
     ELSE IF broadcastResponse.error # None
       THEN [success |-> FALSE, txId |-> None,
             txRaw |-> Some(serialize(tx, p, k)), error |-> broadcastResponse.error]
     ELSE [success |-> TRUE, txId |-> broadcastResponse.txid,
           txRaw |-> Some(serialize(tx, p, k)), error |-> None]

\* X402PaymentClient.sendSTXTransfer.
sendSTXTransfer(details, thisKey, p, k, sdk, net) ==
  IF makeSTXTokenTransferOutcome(sdk, memoOrEmpty(details)) # "ok" THEN PaymentFailure(SdkMessage)
  ELSE broadcastResult(txOptions(details, makeSTXTokenTransfer(details.recipient, details.amount,
                                            thisKey, details.network, memoOrEmpty(details))),
                       p, k, net)

\* X402PaymentClient.sendSBTCTransfer.
sendSBTCTransfer(details, thisKey, p, k, sdk, net) ==
  IF sdk = "badKey" THEN PaymentFailure(SdkMessage)
  ELSE IF ~truthy(details.tokenContract)
    THEN PaymentFailure("Token contract required for sBTC transfers")
  ELSE IF sdk # "ok" THEN PaymentFailure(SdkMessage)
  ELSE broadcastResult(
         txOptions(details, makeContractCall(details.tokenContract, details.amount,
           getAddressFromPrivateKey(details.senderKey, details.network),
           details.recipient, details.memo, thisKey, details.network)),
         p, k, net)

\* X402PaymentClient.sendUSDCxTransfer.
sendUSDCxTransfer(details, thisKey, p, k, sdk, net) ==
  IF sdk = "badKey" THEN PaymentFailure(SdkMessage)
  ELSE IF ~truthy(details.tokenContract)
    THEN PaymentFailure("Token contract required for USDCx transfers")
  ELSE IF sdk # "ok" THEN PaymentFailure(SdkMessage)
  ELSE broadcastResult(
         txOptions(details, makeContractCall(details.tokenContract, details.amount,
           getAddressFromPrivateKey(details.senderKey, details.network),
           details.recipient, details.memo, thisKey, details.network)),
         p, k, net)

\* The try block of X402PaymentClient.makePayment.
tryMakePayment(request, p, k, sdk, net) ==
  IF request.json = "null" THEN Thrown(MsgNullRead)
  ELSE
  LET amount == BigInt(request.maxAmountRequired)
      tokenType == tokenTypeOrSTX(request)
  IN IF amount = None THEN Thrown(MsgBigInt)
     ELSE IF ~typeofString(request.nonce) THEN Thrown(MsgSubstring)
     ELSE LET details ==
                PaymentDetails(request, amount[1], privateKey(p), tokenType)
          IN IF tokenType = "sBTC"
               THEN sendSBTCTransfer(details, privateKey(p), p, k, sdk, net)
             ELSE IF tokenType = "USDCx"
               THEN sendUSDCxTransfer(details, privateKey(p), p, k, sdk, net)
             ELSE sendSTXTransfer(details, privateKey(p), p, k, sdk, net)

\* X402PaymentClient.makePayment.
makePayment(request, p, k, sdk, net) ==
  LET r == tryMakePayment(request, p, k, sdk, net)
  IN IF IsThrown(r) THEN PaymentFailure(r.thrown) ELSE r

\* ---------------------------------- the operations asked of the chain SDK
\* The functions of @stacks/transactions a method calls, in the order of
\* the calls; the arguments and results are those of the method itself.
\* A call that throws ends the list.

\* Mutant of signSTXTransferSdk: the transaction is broadcast as well.
signSTXTransferSdkBroadcasting(details, sdk) ==
  <<"getAddressFromPrivateKey">>
  \o (IF sdk = "badKey" THEN <<>> ELSE <<"makeSTXTokenTransfer">>)
  \o (IF sdk = "ok" THEN <<"broadcastTransaction">> ELSE <<>>)

\* signSTXTransfer
signSTXTransferSdk(details, sdk) ==
  <<"getAddressFromPrivateKey">>
  \o (IF sdk = "badKey" THEN <<>> ELSE <<"makeSTXTokenTransfer">>)

\* signSBTCTransfer and signUSDCxTransfer
signTokenTransferSdk(details, sdk) ==
  <<"getAddressFromPrivateKey">>
  \o (IF sdk = "badKey" \/ ~truthy(details.tokenContract) THEN <<>>
      ELSE <<"makeContractCall">>)

\* sendSTXTransfer
sendSTXTransferSdk(details, sdk) ==
  <<"makeSTXTokenTransfer">>
  \o (IF makeSTXTokenTransferOutcome(sdk, substring34(details.nonce)) = "ok"
        THEN <<"broadcastTransaction">> ELSE <<>>)

\* sendSBTCTransfer and sendUSDCxTransfer
sendTokenTransferSdk(details, sdk) ==
  <<"getAddressFromPrivateKey">>
  \o (IF sdk = "badKey" \/ ~truthy(details.tokenContract) THEN <<>>
      ELSE <<"makeContractCall">>
           \o (IF sdk = "ok" THEN <<"broadcastTransaction">> ELSE <<>>))

\* Whether signPayment / makePayment reach the transfer method.
reachesTransfer(request) ==
  /\ request.json # "null"
  /\ BigInt(request.maxAmountRequired) # None
  /\ typeofString(request.nonce)

\* X402PaymentClient.signPayment
signPaymentSdk(request, sdk) ==
  IF ~reachesTransfer(request) THEN <<>>
  ELSE IF tokenTypeOrSTX(request) \in {"sBTC", "USDCx"}
    THEN signTokenTransferSdk(request, sdk)
  ELSE signSTXTransferSdk(request, sdk)

\* X402PaymentClient.makePayment
makePaymentSdk(request, sdk) ==
  IF ~reachesTransfer(request) THEN <<>>
  ELSE IF tokenTypeOrSTX(request) \in {"sBTC", "USDCx"}
    THEN sendTokenTransferSdk(request, sdk)
  ELSE sendSTXTransferSdk(request, sdk)

\* The interceptor's signPayment
signPaymentV1Sdk(request, sdk) ==
  IF ~reachesTransfer(request) THEN <<>>
  ELSE IF tokenTypeOrSTX(request) \in {"sBTC", "USDCx"}
    THEN IF ~truthy(request.tokenContract) THEN <<>>
         ELSE <<"makeContractCall">>
  ELSE <<"makeSTXTokenTransfer">>

\* ----------------------------------------------------------- the signers
LongNonce == "0123456789012345678901234567890123456789"
\* Twelve euro signs: 12 characters, 36 bytes.
WideNonce == "$$$$$$$$$$$$"

\* The payment requests handed to a signer: null, a string, and mappings
\* with and without an amount, a nonce, a token type and a contract.
SignerRequests ==
  {NullBody, TextBody}
  \cup
  [json : {"object"}, ok : {Absent},
   maxAmountRequired : {"1000000", "abc", Absent},
   resource : {"/resource"},
   payTo : {"ST-PAYEE"},
   network : {"mainnet", "testnet"},
   nonce : {"abc123", "", LongNonce, WideNonce, Absent},
   expiresAt : {FarFuture},
   tokenType : {Absent, "", "STX", "sBTC", "USDCx", "DOGE"},
   tokenContract : {Absent, TokenContractValue}]

\* One payment request, what the chain SDK does with it, and the network
\* the interceptor's account was created for; the client and the account
\* hold the same key.
InitSigner ==
  /\ NoRequests
  /\ fnArg \in [request : SignerRequests, sdk : SdkOutcomes,
                accountNetwork : {"mainnet", "testnet"},
                broadcast : BroadcastOutcomes]
  /\ fnOut = NoOutputs

\* client.signPayment(request)
callSignPayment ==
  /\ ~Applied("signPayment")
  /\ fnOut' = Store(Store(fnOut, "signPayment",
                          signPayment(fnArg.request, 1, 1, fnArg.sdk)),
                    "signPayment.sdk", signPaymentSdk(fnArg.request, fnArg.sdk))
  /\ UNCHANGED fnArg
  /\ UNCHANGED flowVars

\* signPayment(request, account) of the interceptor
callSignPaymentV1 ==
  /\ ~Applied("signPaymentV1")
  /\ fnOut' = Store(Store(fnOut, "signPaymentV1",
                          signPaymentV1(fnArg.request,
                                        privateKeyToAccountV1(privateKey(1),
                                                              fnArg.accountNetwork),
                                        1, 1, fnArg.sdk)),
                    "signPaymentV1.sdk", signPaymentV1Sdk(fnArg.request, fnArg.sdk))
  /\ UNCHANGED fnArg
  /\ UNCHANGED flowVars

\* client.makePayment(request)
callMakePayment ==
  /\ ~Applied("makePayment")
  /\ fnOut' = Store(Store(fnOut, "makePayment",
                          makePayment(fnArg.request, 1, 1, fnArg.sdk,
                                      fnArg.broadcast)),
                    "makePayment.sdk", makePaymentSdk(fnArg.request, fnArg.sdk))
  /\ UNCHANGED fnArg
  /\ UNCHANGED flowVars

NextSigner ==
  \/ callSignPayment
  \/ callSignPaymentV1
  \/ callMakePayment

SpecSigner == InitSigner /\ [][NextSigner]_vars

\* C13: X402PaymentClient.signPayment throws for no input; it returns
\* either success = true with a signedTransaction, a senderAddress and no
\* error, or success = false with an empty signedTransaction, an error
\* message and no senderAddress, and never a mix of the two.
C13_SignPaymentReturnsOneOfTwoShapes ==
  Applied("signPayment") =>
    LET r == fnOut["signPayment"]
    IN IF IsThrown(r) THEN FALSE
       ELSE \/ /\ r.success
               /\ r.signedTransaction # None
               /\ r.senderAddress # None
               /\ r.error = None
            \/ /\ ~r.success
               /\ r.signedTransaction = None
               /\ r.senderAddress = None
               /\ r.error # None

\* C13 witness: a request whose amount is no integer literal was given to
\* signPayment, and it returned the failure result with BigInt's message.
C13_Witness ==
  /\ Applied("signPayment")
  /\ fnArg.request.maxAmountRequired = "abc"
  /\ fnOut["signPayment"] = SignFailure(MsgBigInt)

\* The signer calls of p that were made for a fungible-token request
\* without a token contract and have settled.
TokenCallsWithoutContract(p) ==
  {i \in DOMAIN signerCalls[p] :
     /\ signerCalls[p][i].request.tokenType \in {"sBTC", "USDCx"}
     /\ signerCalls[p][i].request.tokenContract = Absent
     /\ signerCalls[p][i].result # None}

\* A message that says the token contract is required.
SaysContractRequired(msg) ==
  \E t \in {"sBTC", "USDCx"}, what \in {" transfers", " payments"} :
    msg = "Token contract required for " \o t \o what

\* Signing failed without an artifact, and the call ended with 'Payment
\* signing failed' and no retried request.
FailedWithoutTransfer(p, i) ==
  LET r == signerCalls[p][i].result[1]
  IN /\ ~r.success
     /\ r.signedTransaction = None
     /\ r.error # None
     /\ i = Len(signerCalls[p])
     /\ pc[p] = "done"
     /\ result[p] = Some(Threw(NewError(MsgSigning \o r.error[1])))
     /\ ~\E j \in DOMAIN sent[p] : sent[p][j].after >= signerCalls[p][i].for
     /\ \A j \in DOMAIN sent[p] :
          sent[p][j].headers.XPAYMENT # None
            => ~(/\ sent[p][j].headers.XPAYMENT[1].tx.variant = "contract_call"
                 /\ sent[p][j].headers.XPAYMENT[1].tx.contract = Absent)

IsNativePaymentRequest(request) ==
  /\ IsPaymentRequest(request)
  /\ BigInt(request.maxAmountRequired) # None
  /\ request.tokenType \in {Absent, "STX"}

First34(text) == SubSeq(text, 1, IF Len(text) < 34 THEN Len(text) ELSE 34)

\* The transfer the claim describes for a request, a key and the sender
\* address of that key on the request's network.
TransferOf(request, key) ==
  IF request.tokenType \in {Absent, "STX"}
    THEN [variant |-> "token_transfer", recipient |-> request.payTo,
          amount |-> BigInt(request.maxAmountRequired)[1],
          senderKey |-> key, network |-> request.network,
          memo |-> Some(First34(request.nonce)),
          contract |-> Absent, functionName |-> Absent, sender |-> Absent,
          nonce |-> None, fee |-> None]
    ELSE [variant |-> "contract_call", recipient |-> request.payTo,
          amount |-> BigInt(request.maxAmountRequired)[1],
          senderKey |-> key, network |-> request.network,
          memo |-> IF First34(request.nonce) # "" THEN Some(First34(request.nonce))
                   ELSE None,
          contract |-> request.tokenContract, functionName |-> "transfer",
          sender |-> getAddressFromPrivateKey(key, request.network),
          nonce |-> None, fee |-> None]

\* A request both signers can sign: the six fields, an integer amount, a
\* known token type, and a contract when the token is a fungible one.
IsSignableRequest(request) ==
  /\ IsPaymentRequest(request)
  /\ BigInt(request.maxAmountRequired) # None
  /\ request.tokenType \in {Absent, "STX", "sBTC", "USDCx"}
  /\ request.tokenType \in {"sBTC", "USDCx"} => request.tokenContract # Absent

\* C16: the transfer built depends on tokenType alone: STX or none gives a
\* native transfer with recipient = payTo, amount = maxAmountRequired and
\* memo = the first 34 characters of nonce; sBTC or USDCx gives a call of
\* 'transfer' on the token contract with the amount, the sender address,
\* recipient = payTo and a memo that is 'some' exactly when the truncated
\* nonce is not empty; and the client's and the interceptor's signer build
\* the same transfer for the same request and key.
C16_BothSignersBuildTheSameTransfer ==
  (/\ Applied("signPayment")
   /\ Applied("signPaymentV1")
   /\ IsSignableRequest(fnArg.request)
   /\ fnArg.sdk = "ok")
  => /\ fnOut["signPayment"].success
     /\ fnOut["signPayment"].signedTransaction[1].tx =
          TransferOf(fnArg.request, privateKey(1))
     /\ ~IsThrown(fnOut["signPaymentV1"])
     /\ fnOut["signPaymentV1"].tx = fnOut["signPayment"].signedTransaction[1].tx

\* The error the interceptor owes to a first 402 that it does not pay:
\* invalid, else expired, else the signer's failure.
FirstRefusal(p) ==
  LET body == received[p][1].data
  IN IF ~IsPaymentRequest(body) THEN MsgInvalid
     ELSE IF ExpiresBefore(body, handledAt[p]) THEN MsgExpired
     ELSE MsgSigning \o signerCalls[p][1].result[1].error[1]

\* C17: in the interceptor, when the first 402 fails validation, is
\* expired or cannot be signed, the handler rejects with the error of that
\* case ('Invalid x402 payment request from server', 'Payment request has
\* expired', 'Payment signing failed: ...'), the request is not issued
\* again, its headers stay without X-PAYMENT, and its marker stays set.
C17_UnpaidFirst402IsRejected ==
  \A p \in Wrapped :
    (/\ pc[p] = "done"
     /\ Len(received[p]) = 1
     /\ received[p][1].status = 402)
    => /\ result[p] = Some(Threw(NewError(FirstRefusal(p))))
       /\ Len(sent[p]) = 1
       /\ configs[p] = <<NoHeaders>>
       /\ <<p, 1>> \in paymentAttempted
       /\ Len(signerCalls[p]) <= 1
       /\ \A i \in DOMAIN signerCalls[p] : ~signerCalls[p][i].result[1].success

\* C17 witness: the first 402 was valid and unexpired, the signer failed,
\* and the request was rejected with the signing error, unsent, unpaid and
\* marked.
C17_Witness ==
  \E p \in Wrapped :
    /\ pc[p] = "done"
    /\ Len(received[p]) = 1
    /\ Len(signerCalls[p]) = 1
    /\ result[p] = Some(Threw(NewError("Payment signing failed: " \o SdkMessage)))
    /\ Len(sent[p]) = 1
    /\ configs[p][1].XPAYMENT = None
    /\ <<p, 1>> \in paymentAttempted

\* The errors the interceptor itself creates for a request of p.
InterceptorErrors(p) ==
  {NewError(MsgAttempted), NewError(MsgInvalid), NewError(MsgExpired)}
  \cup {NewError(MsgSigning \o signerCalls[p][i].result[1].error[1]) :
          i \in {i \in DOMAIN signerCalls[p] :
                   /\ signerCalls[p][i].result # None
                   /\ ~signerCalls[p][i].result[1].success}}

\* C18: in the interceptor, after a successful signing the handler sets
\* X-PAYMENT and X-PAYMENT-TOKEN-TYPE on the original request object
\* itself and hands that same object once to the same client instance;
\* the caller's request ends exactly as that retry ends: with its
\* response, or with its rejection unchanged and not wrapped as a signing
\* failure; non-error responses pass through unchanged.
C18_RetryReusesRequestAndSettlesIt ==
  \A p \in Wrapped :
    /\ Len(sent[p]) = 1 + Cardinality({k \in DOMAIN received[p] : SignedFor(p, k)})
    /\ \A j \in DOMAIN sent[p] :
         j > 1 =>
           /\ sent[p][j].after = j - 1
           /\ SignedFor(p, j - 1)
           /\ sent[p][j].config = sent[p][j - 1].reported
           /\ configs[p][sent[p][j].config] = sent[p][j].headers
           /\ sent[p][j].headers.XPAYMENT = ArtifactFor(p, j - 1)
           /\ sent[p][j].headers.XPAYMENTTOKENTYPE =
                Some(HeaderTokenType(received[p][j - 1].data))
    /\ (pc[p] = "done" /\ ~IsError(Last(received[p])))
         => result[p] = Some(Returned(Last(received[p])))
    /\ (pc[p] = "done" /\ LatestIsOtherFailure(p))
         => result[p] = Some(Threw(HttpError(p, Len(sent[p]), Last(received[p]))))
    /\ (pc[p] = "done" /\ Last(received[p]).status = 402)
         => \E e \in InterceptorErrors(p) : result[p] = Some(Threw(e))

\* C18 witness: the interceptor paid a 402, the retry carried the payment
\* on the original request object and was answered 500, and the caller's
\* request was rejected with the error of the retry.
C18_Witness ==
  \E p \in Wrapped :
    /\ Len(sent[p]) = 2
    /\ sent[p][2].config = 1
    /\ configs[p][1].XPAYMENT = ArtifactFor(p, 1)
    /\ Last(received[p]) = Response(500, TextBody)
    /\ result[p] = Some(Threw(HttpError(p, 2, Response(500, TextBody))))

\* -------------------------------------------------------- the memo codec
\* String.prototype functions, on TLA+ strings.
charAt(s, i) == SubSeq(s, i, i)
startsWith(s, prefix) ==
  Len(s) >= Len(prefix) /\ SubSeq(s, 1, Len(prefix)) = prefix
substring(s, start) == SubSeq(s, start + 1, Len(s))

\* The position of the first sep in s, 0 when there is none.
indexOf(s, sep) ==
  IF \E i \in 1..Len(s) : charAt(s, i) = sep
    THEN CHOOSE i \in 1..Len(s) :
           /\ charAt(s, i) = sep
           /\ \A j \in 1..(i - 1) : charAt(s, j) # sep
    ELSE 0

\* s.split(sep): every piece between two separators, at least one piece.
RECURSIVE split(_, _)
split(s, sep) ==
  LET i == indexOf(s, sep)
  IN IF i = 0 THEN <<s>>
     ELSE <<SubSeq(s, 1, i - 1)>> \o split(SubSeq(s, i + 1, Len(s)), sep)

\* A Record<string, string>: a function from keys to values.
EmptyObjectMap == [k \in {} |-> ""]
setProperty(object, key, value) ==
  [k \in DOMAIN object \cup {key} |-> IF k = key THEN value ELSE object[k]]

\* const result = {}
EmptyMemo == [resource |-> None, nonce |-> None, custom |-> None]

\* The body of the for loop of parsePaymentMemo: [key, value] are the
\* first two pieces of part.split('='), and both have to be truthy.
parsePart(part, parsed) ==
  LET pieces == split(part, "=")
      key == pieces[1]
      value == IF Len(pieces) >= 2 THEN pieces[2] ELSE Absent
  IN IF truthy(key) /\ truthy(value)
       THEN IF key = "resource" THEN [parsed EXCEPT !.resource = Some(value)]
            ELSE IF key = "nonce" THEN [parsed EXCEPT !.nonce = Some(value)]
            ELSE [parsed EXCEPT !.custom =
                    Some(setProperty(IF @ = None THEN EmptyObjectMap ELSE @[1],
                                     key, value))]
       ELSE parsed

\* for (const part of parts)
RECURSIVE parseParts(_, _)
parseParts(parts, parsed) ==
  IF Len(parts) = 0 THEN parsed
  ELSE parseParts(Tail(parts), parsePart(Head(parts), parsed))

\* utils.parsePaymentMemo
parsePaymentMemo(memo) ==
  IF ~startsWith(memo, "x402:") THEN EmptyMemo
  ELSE parseParts(split(substring(memo, 5), ","), EmptyMemo)

\* for (const [key, value] of Object.entries(custom)) memo += ...
RECURSIVE appendEntries(_, _)
appendEntries(memo, entries) ==
  IF Len(entries) = 0 THEN memo
  ELSE appendEntries(memo \o "," \o Head(entries)[1] \o "=" \o Head(entries)[2],
                     Tail(entries))

\* utils.createPaymentMemo; custom is None or the entries of the object
\* in insertion order.
createPaymentMemo(resource, nonce, custom) ==
  LET memo == "x402:" \o resource \o ",nonce=" \o nonce
  IN IF custom = None THEN memo ELSE appendEntries(memo, custom[1])

\* Texts for resource, nonce, keys and values, and custom objects.
Texts == {"", "/api", "n1", "a=b", "a,b", "resource=/r"}
Customs ==
  {None, Some(<<>>)}
  \cup {Some(<<<<k, v>>>>) : k \in {"k", "nonce"}, v \in {"v", "v=w", "v,w", ""}}
  \cup {Some(<<<<"k", "v">>, <<"j", "w">>>>)}

\* Memo texts: up to MaxMemoTokens tokens, with and without the prefix.
MaxMemoTokens == 5
MemoTokens == {"resource", "nonce", "k", "=", ","}

RECURSIVE join(_)
join(tokens) == IF Len(tokens) = 0 THEN "" ELSE Head(tokens) \o join(Tail(tokens))

MemoTexts ==
  LET bodies == UNION {{join(t) : t \in [1..n -> MemoTokens]} : n \in 0..MaxMemoTokens}
  IN bodies \cup {"x402:" \o b : b \in bodies}

\* Either the arguments of createPaymentMemo, or a memo to parse.
InitMemo ==
  /\ NoRequests
  /\ fnArg \in [kind : {"fields"}, resource : Texts, nonce : Texts, custom : Customs]
             \cup [kind : {"memo"}, memo : MemoTexts]
  /\ fnOut = NoOutputs

\* createPaymentMemo(resource, nonce, custom)
callCreatePaymentMemo ==
  /\ fnArg.kind = "fields"
  /\ ~Applied("createPaymentMemo")
  /\ fnOut' = Store(fnOut, "createPaymentMemo",
                    createPaymentMemo(fnArg.resource, fnArg.nonce, fnArg.custom))
  /\ UNCHANGED fnArg
  /\ UNCHANGED flowVars

\* parsePaymentMemo(memo), of the given memo or of the memo just created
callParsePaymentMemo ==
  /\ fnArg.kind = "fields" => Applied("createPaymentMemo")
  /\ ~Applied("parsePaymentMemo")
  /\ fnOut' = Store(fnOut, "parsePaymentMemo",
                    parsePaymentMemo(IF fnArg.kind = "memo" THEN fnArg.memo
                                     ELSE fnOut["createPaymentMemo"]))
  /\ UNCHANGED fnArg
  /\ UNCHANGED flowVars

NextMemo ==
  \/ callCreatePaymentMemo
  \/ callParsePaymentMemo

SpecMemo == InitMemo /\ [][NextMemo]_vars

\* The pairs of a custom object: of its entries, or of a parsed map.
PairsOfEntries(custom) ==
  IF custom = None THEN {} ELSE {custom[1][i] : i \in DOMAIN custom[1]}
PairsOfMap(custom) ==
  IF custom = None THEN {} ELSE {<<k, custom[1][k]>> : k \in DOMAIN custom[1]}

\* C19: for all resource, nonce and custom,
\* parsePaymentMemo(createPaymentMemo(resource, nonce, custom)) returns
\* the resource and the nonce exactly, and a custom map with the same
\* pairs.
C19_MemoRoundTrip ==
  (fnArg.kind = "fields" /\ Applied("parsePaymentMemo"))
  => /\ fnOut["parsePaymentMemo"].resource = Some(fnArg.resource)
     /\ fnOut["parsePaymentMemo"].nonce = Some(fnArg.nonce)
     /\ PairsOfMap(fnOut["parsePaymentMemo"].custom) = PairsOfEntries(fnArg.custom)

\* The reference decoder.  A segment is split at its first '=': the key
\* is what stands before it, the value all that follows it; a segment
\* without '=' is skipped.
DecodeSegment(segment, decoded) ==
  LET i == indexOf(segment, "=")
      key == SubSeq(segment, 1, i - 1)
      value == SubSeq(segment, i + 1, Len(segment))
  IN IF i = 0 THEN decoded
     ELSE IF key = "resource" THEN [decoded EXCEPT !.resource = Some(value)]
     ELSE IF key = "nonce" THEN [decoded EXCEPT !.nonce = Some(value)]
     ELSE [decoded EXCEPT !.custom =
             Some(setProperty(IF @ = None THEN EmptyObjectMap ELSE @[1],
                              key, value))]

RECURSIVE DecodeSegments(_, _)
DecodeSegments(segments, decoded) ==
  IF Len(segments) = 0 THEN decoded
  ELSE DecodeSegments(Tail(segments), DecodeSegment(Head(segments), decoded))

Decode(memo) ==
  IF ~startsWith(memo, "x402:") THEN EmptyMemo
  ELSE DecodeSegments(split(SubSeq(memo, 6, Len(memo)), ","), EmptyMemo)

\* C20: parsePaymentMemo agrees with the reference decoder on every memo:
\* all fields absent when the memo does not start with 'x402:'; otherwise
\* each comma-separated segment is split at its first '=' only, so that a
\* value containing '=' is kept whole, 'resource' and 'nonce' fill the
\* fields, every other key=value goes to custom, and only the segments
\* without '=' are skipped.
C20_ParseAgreesWithReferenceDecoder ==
  (fnArg.kind = "memo" /\ Applied("parsePaymentMemo"))
  => fnOut["parsePaymentMemo"] = Decode(fnArg.memo)

\* C21: every artifact signed during a requestWithPayment call is attached
\* to a later request of that call: the call never signs a payment for a
\* 402 and then ends without sending it, not for the 402 received on the
\* last permitted attempt and not when maxRetries = 0.
C21_EverySignedArtifactIsSent ==
  \A p \in Calls :
    pc[p] = "done" =>
      \A k \in DOMAIN received[p] :
        SignedFor(p, k) =>
          \E j \in DOMAIN sent[p] :
            /\ sent[p][j].after = k
            /\ sent[p][j].headers.XPAYMENT = ArtifactFor(p, k)

\* The chain SDK functions a direct call invoked.
SdkCallsOf(name) == {fnOut[name][i] : i \in DOMAIN fnOut[name]}

\* C22: the signing paths (signPayment with its sign*Transfer methods,
\* which is all that requestWithPayment and the interceptor call of the
\* chain SDK) never submit a transaction to the network: the broadcast
\* operation of the chain SDK is invoked from the makePayment /
\* send*Transfer path only.
C22_OnlyMakePaymentBroadcasts ==
  \A name \in DOMAIN fnOut \cap {"signPayment.sdk", "signPaymentV1.sdk",
                                 "makePayment.sdk"} :
    "broadcastTransaction" \in SdkCallsOf(name) => name = "makePayment.sdk"

\* C22 witness: the same request was signed by both signers and paid by
\* makePayment; the signers built a transaction and did not broadcast,
\* makePayment did.
C22_Witness ==
  /\ Applied("signPayment")
  /\ Applied("signPaymentV1")
  /\ Applied("makePayment")
  /\ fnOut["signPayment"].success
  /\ "makeSTXTokenTransfer" \in SdkCallsOf("signPayment.sdk")
  /\ "makeSTXTokenTransfer" \in SdkCallsOf("signPaymentV1.sdk")
  /\ "broadcastTransaction" \notin SdkCallsOf("signPayment.sdk")
  /\ "broadcastTransaction" \in SdkCallsOf("makePayment.sdk")

\* makePayment got as far as broadcasting a transaction.
Broadcast == "broadcastTransaction" \in SdkCallsOf("makePayment.sdk")

\* C23: the legacy makePayment never throws; when the network rejects the
\* broadcast it returns success = false with an empty txId, the network's
\* error and the raw signed transaction; when building or signing fails
\* it returns success = false with empty txId and txRaw; and success =
\* true holds exactly when txId is the identifier the broadcast returned.
C23_MakePaymentReportsEveryFailure ==
  Applied("makePayment") =>
    LET r == fnOut["makePayment"]
    IN IF IsThrown(r) THEN FALSE
       ELSE /\ (Broadcast /\ fnArg.broadcast = "rejected")
                 => /\ ~r.success
                    /\ r.txId = None
                    /\ r.error = Some(MsgRejected)
                    /\ r.txRaw # None
            /\ ~Broadcast
                 => /\ ~r.success
                    /\ r.txId = None
                    /\ r.txRaw = None
                    /\ r.error # None
            /\ r.success <=> /\ Broadcast
                             /\ fnArg.broadcast = "accepted"
                             /\ r.txRaw # None
                             /\ r.txId = Some(txidOf(r.txRaw[1].tx))
            /\ ~r.success => r.txId = None

\* C23 witness: makePayment built an sBTC transfer, the node rejected it,
\* and the result carries the node's error and the raw transaction.
C23_Witness ==
  /\ Applied("makePayment")
  /\ fnArg.request.tokenType = "sBTC"
  /\ fnArg.broadcast = "rejected"
  /\ Broadcast
  /\ ~fnOut["makePayment"].success
  /\ fnOut["makePayment"].error = Some(MsgRejected)
  /\ fnOut["makePayment"].txRaw # None
  /\ fnOut["makePayment"].txRaw[1].tx.variant = "contract_call"

\* ------------------------------------------- the X-PAYMENT-RESPONSE codec
\* A JavaScript value: its type, the text of a scalar, and the [key, value]
\* pairs of an object in insertion order (the items of an array, keyed "").
JSValue(type, text, props) == [type |-> type, text |-> text, props |-> props]
JSNull == JSValue("null", "", <<>>)
JSNumber(digits) == JSValue("number", digits, <<>>)
JSString(text) == JSValue("string", text, <<>>)
JSArray(items) == JSValue("array", "", [i \in DOMAIN items |-> <<"", items[i]>>])
JSObject(props) == JSValue("object", "", props)

\* The character that stands for the result of decoding a byte that is not
\* printable ASCII, and the characters of codes 32 to 126 in code order
\* (code 96, the backquote, is written as the stand-in).
Unprintable == "\t"
Ascii ==
  " !\"#$%&'()*+,-./0123456789:;<=>?@ABCDEFGHIJKLMNOPQRSTUVWXYZ[\\]^_"
    \o Unprintable \o "abcdefghijklmnopqrstuvwxyz{|}~"
Base64Alphabet ==
  "ABCDEFGHIJKLMNOPQRSTUVWXYZabcdefghijklmnopqrstuvwxyz0123456789+/"

isIn(c, alphabet) == \E i \in 1..Len(alphabet) : charAt(alphabet, i) = c
positionIn(c, alphabet) == CHOOSE i \in 1..Len(alphabet) : charAt(alphabet, i) = c

\* Buffer.from(text): the UTF-8 bytes of a text of printable ASCII.
bufferFromUtf8(text) == [i \in 1..Len(text) |-> 31 + positionIn(charAt(text, i), Ascii)]

\* The texts of a sequence, one after the other.
RECURSIVE concat(_)
concat(texts) ==
  LET half == Len(texts) \div 2
  IN IF Len(texts) = 0 THEN ""
     ELSE IF Len(texts) = 1 THEN texts[1]
     ELSE concat(SubSeq(texts, 1, half)) \o concat(SubSeq(texts, half + 1, Len(texts)))

\* buffer.toString, as UTF-8
toStringUtf8(bytes) ==
  concat([i \in DOMAIN bytes |->
            IF bytes[i] \in 32..126 THEN charAt(Ascii, bytes[i] - 31) ELSE Unprintable])

\* buffer.toString, as base64: every six bits of the bytes give one
\* character, the last bits are filled with zeros, and = pads the text to
\* a multiple of four characters.
toStringBase64(bytes) ==
  LET byte(k) == IF k <= Len(bytes) THEN bytes[k] ELSE 0
      count == (Len(bytes) * 8 + 5) \div 6
      sextet(i) ==
        LET k == (6 * (i - 1)) \div 8 + 1
            off == (6 * (i - 1)) % 8
        IN CASE off = 0 -> byte(k) \div 4
             [] off = 6 -> (byte(k) % 4) * 16 + byte(k + 1) \div 16
             [] off = 4 -> (byte(k) % 16) * 4 + byte(k + 1) \div 64
             [] off = 2 -> byte(k) % 64
      padding == CASE count % 4 = 0 -> ""
                   [] count % 4 = 2 -> "=="
                   [] count % 4 = 3 -> "="
  IN concat([i \in 1..count |-> charAt(Base64Alphabet, sextet(i) + 1)]) \o padding

\* The six-bit values of the characters Buffer.from(text), as base64 reads:
\* it stops at the first =, takes - and _ for + and /, and skips
\* every other character that is not of the alphabet.
sextetsOf(text) ==
  LET stop == indexOf(text, "=")
      read == IF stop = 0 THEN Len(text) ELSE stop - 1
      chars == [i \in 1..read |-> charAt(text, i)]
      legal(c) == isIn(c, Base64Alphabet) \/ c = "-" \/ c = "_"
      kept == SelectSeq(chars, legal)
  IN [i \in DOMAIN kept |->
        CASE kept[i] = "-" -> 62
          [] kept[i] = "_" -> 63
          [] OTHER -> positionIn(kept[i], Base64Alphabet) - 1]

\* Every eight bits of the six-bit values give one byte; the bits left over
\* at the end are dropped.
bytesOf(sextets) ==
  LET count == (Len(sextets) * 6) \div 8
      byte(j) ==
        LET k == (8 * (j - 1)) \div 6 + 1
            off == (8 * (j - 1)) % 6
        IN CASE off = 0 -> sextets[k] * 4 + sextets[k + 1] \div 16
             [] off = 2 -> (sextets[k] % 16) * 16 + sextets[k + 1] \div 4
             [] off = 4 -> (sextets[k] % 4) * 64 + sextets[k + 1]
  IN [j \in 1..count |-> byte(j)]

\* Buffer.from(text), as base64
bufferFromBase64(text) == bytesOf(sextetsOf(text))

\* JSON.stringify(value): NaN is written as null.
RECURSIVE JSONstringify(_)
RECURSIVE stringifyProps(_, _)
stringifyProps(props, inArray) ==
  LET first == IF inArray THEN JSONstringify(props[1][2])
               ELSE "\"" \o props[1][1] \o "\":" \o JSONstringify(props[1][2])
  IN IF Len(props) = 0 THEN ""
     ELSE IF Len(props) = 1 THEN first
     ELSE first \o "," \o stringifyProps(Tail(props), inArray)

JSONstringify(value) ==
  CASE value.type = "null" -> "null"
    [] value.type = "number" -> IF value.text = "NaN" THEN "null" ELSE value.text
    [] value.type = "string" -> "\"" \o value.text \o "\""
    [] value.type = "array" -> "[" \o stringifyProps(value.props, TRUE) \o "]"
    [] value.type = "object" -> "{" \o stringifyProps(value.props, FALSE) \o "}"

\* The result of reading a value from the front of a text.
Parsed(value, rest) == [ok |-> TRUE, value |-> value, rest |-> rest]
Unexpected == [ok |-> FALSE, value |-> JSNull, rest |-> ""]

RECURSIVE skipSpaces(_)
skipSpaces(text) ==
  IF startsWith(text, " ") THEN skipSpaces(substring(text, 1)) ELSE text

RECURSIVE leadingDigits(_)
leadingDigits(text) ==
  IF Len(text) > 0 /\ isIn(charAt(text, 1), "0123456789")
    THEN 1 + leadingDigits(substring(text, 1))
    ELSE 0

\* A number: 0, or a digit other than 0 followed by digits.
parseNumber(text) ==
  LET n == IF startsWith(text, "0") THEN 1 ELSE leadingDigits(text)
  IN IF n = 0 THEN Unexpected
     ELSE Parsed(JSNumber(SubSeq(text, 1, n)), substring(text, n))

\* A string: the characters between two quotes, none of them a backslash
\* or a character that has to be escaped.
parseString(text) ==
  LET after == substring(text, 1)
      close == indexOf(after, "\"")
      content == SubSeq(after, 1, close - 1)
  IN IF ~startsWith(text, "\"") \/ close = 0 THEN Unexpected
     ELSE IF isIn("\\", content) \/ isIn(Unprintable, content) THEN Unexpected
     ELSE Parsed(JSString(content), substring(after, close))

\* obj[key] = value: a key that is present keeps its place.
defineProperty(props, key, value) ==
  IF \E i \in DOMAIN props : props[i][1] = key
    THEN [i \in DOMAIN props |-> IF props[i][1] = key THEN <<key, value>> ELSE props[i]]
    ELSE Append(props, <<key, value>>)

RECURSIVE parseValue(_)
RECURSIVE parseMembers(_, _)
RECURSIVE parseElements(_, _)

\* The members of an object after { or ,: "key" : value, then , or }.
parseMembers(text, props) ==
  LET key == parseString(skipSpaces(text))
      colon == skipSpaces(key.rest)
      value == parseValue(substring(colon, 1))
      next == skipSpaces(value.rest)
      sofar == defineProperty(props, key.value.text, value.value)
  IN IF ~key.ok \/ ~startsWith(colon, ":") THEN Unexpected
     ELSE IF ~value.ok THEN Unexpected
     ELSE IF startsWith(next, ",") THEN parseMembers(substring(next, 1), sofar)
     ELSE IF startsWith(next, "}") THEN Parsed(JSObject(sofar), substring(next, 1))
     ELSE Unexpected

\* The elements of an array after [ or ,: value, then , or ].
parseElements(text, items) ==
  LET value == parseValue(text)
      next == skipSpaces(value.rest)
      sofar == Append(items, value.value)
  IN IF ~value.ok THEN Unexpected
     ELSE IF startsWith(next, ",") THEN parseElements(substring(next, 1), sofar)
     ELSE IF startsWith(next, "]") THEN Parsed(JSArray(sofar), substring(next, 1))
     ELSE Unexpected

\* A JSON value at the front of a text: null, a number, a string, an array
\* or an object, with spaces allowed around it.
parseValue(text) ==
  LET t == skipSpaces(text)
      inside == skipSpaces(substring(t, 1))
  IN IF startsWith(t, "null") THEN Parsed(JSNull, substring(t, 4))
     ELSE IF startsWith(t, "\"") THEN parseString(t)
     ELSE IF startsWith(t, "{")
       THEN IF startsWith(inside, "}")
              THEN Parsed(JSObject(<<>>), substring(inside, 1))
              ELSE parseMembers(inside, <<>>)
     ELSE IF startsWith(t, "[")
       THEN IF startsWith(inside, "]")
              THEN Parsed(JSArray(<<>>), substring(inside, 1))
              ELSE parseElements(inside, <<>>)
     ELSE parseNumber(t)

MsgSyntaxError == "SyntaxError"

\* JSON.parse(text): the value, or a SyntaxError when the text is not one
\* JSON value.
JSONparse(text) ==
  LET r == parseValue(text)
  IN IF r.ok /\ skipSpaces(r.rest) = "" THEN r.value ELSE Thrown(MsgSyntaxError)

\* The try block: the value read from the header, or the thrown value.
tryDecodeXPaymentResponse(header) ==
  LET decoded == toStringUtf8(bufferFromBase64(header))
  IN JSONparse(decoded)

\* decodeXPaymentResponse(header); header is None for null or undefined
decodeXPaymentResponse(header) ==
  IF header = None \/ header = Some("") THEN JSNull
  ELSE LET r == tryDecodeXPaymentResponse(header[1])
       IN IF IsThrown(r) THEN JSNull ELSE r

\* encodeXPaymentResponse(response)
encodeXPaymentResponse(response) ==
  toStringBase64(bufferFromUtf8(JSONstringify(response)))

\* ---- the codec called directly
JsonTexts ==
  {"123", "null", "\"abc\"", "[]", "[1,2]", "{}", "{\"foo\":1}",
   "{\"txId\":\"0xab\"}", "{\"status\":\"confirmed\"}",
   "{\"txId\":\"0xab\",\"status\":\"confirmed\"}",
   "{\"txId\":\"0xab\",\"status\":\"confirmed\",\"blockHeight\":42}",
   " {\"txId\": \"0xab\", \"status\": \"pending\"} ",
   "{\"txId\":1,\"txId\":\"0xab\",\"status\":\"confirmed\"}",
   "{\"txId\":", "{\"txId\":\"0xab\",}", "not json", "01", ""}

\* The headers: absent, empty, the base64 of a text, a text that is not
\* base64, and base64 without its padding or with characters to skip.
Headers ==
  {None, Some("")}
    \cup {Some(toStringBase64(bufferFromUtf8(t))) : t \in JsonTexts \ {""}}
    \cup {Some(t) : t \in JsonTexts \ {""}}
    \cup {Some("e30"), Some("e 3 0 ="), Some("MTIz!"), Some("%%%"), Some("====")}

\* The PaymentResponse values: txId and status, and blockHeight or one more
\* property or neither.
PaymentResponses ==
  {JSObject(<<<<"txId", JSString(id)>>, <<"status", JSString(st)>>>> \o more) :
     id \in {"0xab", ""}, st \in {"confirmed", "pending"},
     more \in {<<>>,
               <<<<"blockHeight", JSNumber("0")>>>>,
               <<<<"blockHeight", JSNumber("42")>>>>,
               <<<<"blockHeight", JSNumber("NaN")>>>>,
               <<<<"explorer", JSString("https://x/tx?id=1&a[0]={b}")>>>>,
               <<<<"blockHeight", JSNumber("7")>>,
                 <<"receipt", JSObject(<<<<"events", JSArray(<<JSNull, JSNumber("1")>>)>>>>)>>>>}}

InitHeader ==
  /\ NoRequests
  /\ fnArg \in [kind : {"header"}, header : Headers]
             \cup [kind : {"response"}, response : PaymentResponses]
  /\ fnOut = NoOutputs

\* decodeXPaymentResponse(header), of a header received or of the header
\* encodeXPaymentResponse returned
callDecodeXPaymentResponse ==
  /\ ~Applied("decodeXPaymentResponse")
  /\ fnArg.kind = "response" => Applied("encodeXPaymentResponse")
  /\ fnOut' = Store(fnOut, "decodeXPaymentResponse",
                    decodeXPaymentResponse(
                      IF fnArg.kind = "header" THEN fnArg.header
                      ELSE Some(fnOut["encodeXPaymentResponse"])))
  /\ UNCHANGED fnArg
  /\ UNCHANGED flowVars

\* encodeXPaymentResponse(response)
callEncodeXPaymentResponse ==
  /\ fnArg.kind = "response"
  /\ ~Applied("encodeXPaymentResponse")
  /\ fnOut' = Store(fnOut, "encodeXPaymentResponse",
                    encodeXPaymentResponse(fnArg.response))
  /\ UNCHANGED fnArg
  /\ UNCHANGED flowVars

NextHeader ==
  \/ callDecodeXPaymentResponse
  \/ callEncodeXPaymentResponse

SpecHeader == InitHeader /\ [][NextHeader]_vars

hasProperty(value, key) ==
  value.type = "object" /\ \E i \in DOMAIN value.props : value.props[i][1] = key

\* The header is the base64 encoding of a JSON object that carries txId
\* and status.
EncodesPaymentResponse(header) ==
  /\ header # None
  /\ toStringBase64(bufferFromBase64(header[1])) = header[1]
  /\ LET r == JSONparse(toStringUtf8(bufferFromBase64(header[1])))
     IN IF IsThrown(r) THEN FALSE
        ELSE hasProperty(r, "txId") /\ hasProperty(r, "status")

\* C24: decodeXPaymentResponse never throws and returns null or a JSON
\* object that carries at least txId and status; it returns null for a
\* missing or empty header and for every header that is not the base64
\* encoding of such an object; and decoding the encoding of a
\* PaymentResponse gives that PaymentResponse back.
C24_DecodeGivesNullOrPaymentResponse ==
  Applied("decodeXPaymentResponse") =>
    LET r == fnOut["decodeXPaymentResponse"]
    IN IF IsThrown(r) THEN FALSE
       ELSE /\ r = JSNull \/ (hasProperty(r, "txId") /\ hasProperty(r, "status"))
            /\ fnArg.kind = "header" =>
                 /\ fnArg.header \in {None, Some("")} => r = JSNull
                 /\ ~EncodesPaymentResponse(fnArg.header) => r = JSNull
            /\ fnArg.kind = "response" => r = fnArg.response

\* ---- requestWithPayment against a server and a signer that answer
\* Every request the call makes gets its answer and every signing settles:
\* axios.request and signPayment are awaited (client.ts:510, 544), so the
\* loop goes on as soon as the promise settles.  The clock stands still.
NextLive ==
  \E p \in SeqProcs : CallStep(p, 0..MaxRetriesBound, Responses, SdkOutcomes)

SpecLive ==
  /\ Init
  /\ [][NextLive]_vars
  /\ \A p \in SeqProcs :
       /\ WF_vars(\E resp \in Responses : clientResponse(p, resp))
       /\ WF_vars(\E sdk \in SdkOutcomes : clientSigned(p, sdk))

\* The signer calls of p that have succeeded.
SuccessfulSignings(p) ==
  {i \in DOMAIN signerCalls[p] :
     signerCalls[p][i].result # None /\ signerCalls[p][i].result[1].success}

\* C25: every requestWithPayment call with a finite maxRetries terminates
\* when each request and each signing completes; attempt starts at 0 and
\* is at every moment the number of signings that have succeeded, so it
\* grows by one with each of them and never otherwise; and the call never
\* signs more often than it has sent requests.
C25_CallTerminatesAndCountsSignings ==
  \A p \in SeqProcs :
    /\ [](path[p] = "call" =>
            /\ attempt[p] = Cardinality(SuccessfulSignings(p))
            /\ Len(signerCalls[p]) <= Len(sent[p]))
    /\ (path[p] = "call" /\ pc[p] # "done") ~> (pc[p] = "done")

\* C25 witness: a call with maxRetries = 2 signed three times, attempt
\* reached 3, and the call ended.
C25_Witness ==
  \E p \in SeqProcs :
    /\ path[p] = "call"
    /\ pc[p] = "done"
    /\ maxRetries[p] = 2
    /\ attempt[p] = 3
    /\ Cardinality(SuccessfulSignings(p)) = 3
    /\ Len(sent[p]) = 3

\* The transactions the three entry points signed for fnArg.request.
SignedTransfers ==
  (IF Applied("signPayment") /\ fnOut["signPayment"].success
     THEN {fnOut["signPayment"].signedTransaction[1].tx} ELSE {})
  \cup (IF Applied("signPaymentV1") /\ ~IsThrown(fnOut["signPaymentV1"])
          THEN {fnOut["signPaymentV1"].tx} ELSE {})
  \cup (IF Applied("makePayment") /\ fnOut["makePayment"].txRaw # None
          THEN {fnOut["makePayment"].txRaw[1].tx} ELSE {})

\* C26: the memo of every signed transfer, the native memo or the memo
\* buffer of a SIP-010 transfer, is at most 34 bytes long, for every nonce
\* the server sends, nonces of multi-byte characters included.
C26_SignedMemoIsAtMost34Bytes ==
  \A tx \in SignedTransfers :
    tx.memo # None => byteLength(tx.memo[1]) <= MemoLimit

\* ------------------------------------- the transfer methods called directly
\* The PaymentDetails a caller hands to a transfer method: the key is the
\* client's or another one, the memo, the contract, the nonce and the fee
\* are given or not, and a given nonce or fee may be 0.
TransferDetails ==
  [recipient : {"ST-PAYEE"}, amount : {1000000},
   senderKey : {privateKey(1), privateKey(2)},
   network : {"mainnet", "testnet"},
   memo : {Absent, "pay-1"},
   tokenType : {Absent},
   tokenContract : {Absent, TokenContractValue},
   nonce : {None, Some(0), Some(7)},
   fee : {None, Some(0), Some(180)}]

\* The payment requests handed to signPayment and makePayment next to them.
TransferRequests ==
  {r \in SignerRequests :
     /\ IsPaymentRequest(r)
     /\ r.maxAmountRequired = "1000000"
     /\ r.network = "testnet"
     /\ r.nonce = "abc123"
     /\ r.tokenType \in {Absent, "sBTC", "USDCx"}
     /\ r.tokenContract # Absent}

InitTransfer ==
  /\ NoRequests
  /\ fnArg \in [details : TransferDetails, request : TransferRequests,
                sdk : SdkOutcomes, broadcast : {"accepted", "rejected"}]
  /\ fnOut = NoOutputs

\* client.signSTXTransfer(details), on the client of process 1
callSignSTXTransfer ==
  /\ fnOut = NoOutputs
  /\ fnOut' = Store(fnOut, "signSTXTransfer",
                    signSTXTransfer(fnArg.details, privateKey(1), 1, 1, fnArg.sdk))
  /\ UNCHANGED fnArg
  /\ UNCHANGED flowVars

\* client.signSBTCTransfer(details)
callSignSBTCTransfer ==
  /\ fnOut = NoOutputs
  /\ fnOut' = Store(fnOut, "signSBTCTransfer",
                    signSBTCTransfer(fnArg.details, privateKey(1), 1, 1, fnArg.sdk))
  /\ UNCHANGED fnArg
  /\ UNCHANGED flowVars

\* client.signUSDCxTransfer(details)
callSignUSDCxTransfer ==
  /\ fnOut = NoOutputs
  /\ fnOut' = Store(fnOut, "signUSDCxTransfer",
                    signUSDCxTransfer(fnArg.details, privateKey(1), 1, 1, fnArg.sdk))
  /\ UNCHANGED fnArg
  /\ UNCHANGED flowVars

\* client.sendSTXTransfer(details)
callSendSTXTransfer ==
  /\ fnOut = NoOutputs
  /\ fnOut' = Store(fnOut, "sendSTXTransfer",
                    sendSTXTransfer(fnArg.details, privateKey(1), 1, 1, fnArg.sdk,
                                    fnArg.broadcast))
  /\ UNCHANGED fnArg
  /\ UNCHANGED flowVars

\* client.sendSBTCTransfer(details)
callSendSBTCTransfer ==
  /\ fnOut = NoOutputs
  /\ fnOut' = Store(fnOut, "sendSBTCTransfer",
                    sendSBTCTransfer(fnArg.details, privateKey(1), 1, 1, fnArg.sdk,
                                     fnArg.broadcast))
  /\ UNCHANGED fnArg
  /\ UNCHANGED flowVars

\* client.sendUSDCxTransfer(details)
callSendUSDCxTransfer ==
  /\ fnOut = NoOutputs
  /\ fnOut' = Store(fnOut, "sendUSDCxTransfer",
                    sendUSDCxTransfer(fnArg.details, privateKey(1), 1, 1, fnArg.sdk,
                                      fnArg.broadcast))
  /\ UNCHANGED fnArg
  /\ UNCHANGED flowVars

NextTransfer ==
  \/ callSignSTXTransfer
  \/ callSignSBTCTransfer
  \/ callSignUSDCxTransfer
  \/ callSendSTXTransfer
  \/ callSendSBTCTransfer
  \/ callSendUSDCxTransfer
  \/ callSignPayment
  \/ callMakePayment

SpecTransfer == InitTransfer /\ [][NextTransfer]_vars

SignMethods == {"signSTXTransfer", "signSBTCTransfer", "signUSDCxTransfer"}
SendMethods == {"sendSTXTransfer", "sendSBTCTransfer", "sendUSDCxTransfer"}

\* The options the SDK got from the methods that were called with
\* fnArg.details and built a transaction.
OptionsFromDetails ==
  {fnOut[name].signedTransaction[1].tx :
     name \in {n \in SignMethods \cap DOMAIN fnOut : fnOut[n].success}}
  \cup {fnOut[name].txRaw[1].tx :
          name \in {n \in SendMethods \cap DOMAIN fnOut : fnOut[n].txRaw # None}}

\* The options the SDK got from signPayment and makePayment for
\* fnArg.request.
OptionsFromRequest ==
  (IF Applied("signPayment") /\ fnOut["signPayment"].success
     THEN {fnOut["signPayment"].signedTransaction[1].tx} ELSE {})
  \cup (IF Applied("makePayment") /\ fnOut["makePayment"].txRaw # None
          THEN {fnOut["makePayment"].txRaw[1].tx} ELSE {})

\* C27: a nonce or a fee given in PaymentDetails, 0 included, is passed to
\* the chain SDK as given, one that is undefined is left out of the
\* options, and through signPayment and makePayment neither is ever set.
C27_OverridesArePassedAsGiven ==
  /\ \A tx \in OptionsFromDetails :
       tx.nonce = fnArg.details.nonce /\ tx.fee = fnArg.details.fee
  /\ \A tx \in OptionsFromRequest :
       tx.nonce = None /\ tx.fee = None

\* C27 witness: signSTXTransfer was called with nonce 0 and no fee, and the
\* transaction it signed was built with nonce 0 and without a fee.
C27_Witness ==
  /\ Applied("signSTXTransfer")
  /\ fnArg.details.nonce = Some(0)
  /\ fnArg.details.fee = None
  /\ fnOut["signSTXTransfer"].success
  /\ fnOut["signSTXTransfer"].signedTransaction[1].tx.nonce = Some(0)
  /\ fnOut["signSTXTransfer"].signedTransaction[1].tx.fee = None

\* C29: in every successful result of signSTXTransfer, signSBTCTransfer and
\* signUSDCxTransfer, senderAddress, and the sender argument of a SIP-010
\* transfer, is the address of the key that signed the transaction, also
\* when details.senderKey is not the client's key.
C29_SenderAddressIsTheSigners ==
  \A name \in SignMethods \cap DOMAIN fnOut :
    fnOut[name].success =>
      LET tx == fnOut[name].signedTransaction[1].tx
          signer == getAddressFromPrivateKey(tx.senderKey, tx.network)
      IN /\ fnOut[name].senderAddress = Some(signer)
         /\ tx.variant = "contract_call" => tx.sender = signer

\* The config object reported for the k-th request of p was already
\* reported with an earlier 402.
MarkedBefore(p, k) ==
  \E j \in 1..(k - 1) :
    /\ received[p][j].status = 402
    /\ sent[p][j].reported = sent[p][k].reported

\* The k-th response of p ended the request as already attempted, unsigned.
EndedAsAttempted(p, k) ==
  /\ k = Len(received[p])
  /\ pc[p] = "done"
  /\ result[p] = Some(Threw(NewError(MsgAttempted)))
  /\ \A i \in DOMAIN signerCalls[p] : signerCalls[p][i].for # k

\* C28: the interceptor looks its marker up and sets it on the config
\* object the HTTP client reports with the error and on nothing else; a 402
\* is rejected as already attempted exactly when the object reported for
\* its request was marked by an earlier 402; a 402 reported with another
\* object is handled as a first one: validated, checked for expiry, signed,
\* and issued again with the artifact.
C28_MarkerFollowsReportedConfig ==
  \A p \in Wrapped :
    LET offers == {k \in DOMAIN received[p] : received[p][k].status = 402}
    IN /\ {c \in DOMAIN configs[p] : <<p, c>> \in paymentAttempted}
            = {sent[p][k].reported : k \in offers}
       /\ \A k \in offers :
            /\ MarkedBefore(p, k) <=> EndedAsAttempted(p, k)
            /\ (~MarkedBefore(p, k) /\ IsPaymentRequest(received[p][k].data))
                 => \/ \E i \in DOMAIN signerCalls[p] : signerCalls[p][i].for = k
                    \/ /\ k = Len(received[p])
                       /\ pc[p] = "done"
                       /\ result[p] = Some(Threw(NewError(MsgExpired)))
            /\ (~MarkedBefore(p, k) /\ SignedFor(p, k))
                 => \E j \in DOMAIN sent[p] :
                      /\ sent[p][j].after = k
                      /\ sent[p][j].config = sent[p][k].reported
                      /\ sent[p][j].headers.XPAYMENT = ArtifactFor(p, k)

\* C28 witness: the retry was reported with another config object than the
\* first request, its 402 was signed and issued again, and the 402 to that
\* third request, reported with the marked object, was rejected as already
\* attempted.
C28_Witness ==
  \E p \in Wrapped :
    /\ Len(sent[p]) = 3
    /\ Len(received[p]) = 3
    /\ sent[p][2].reported # sent[p][1].reported
    /\ sent[p][3].reported = sent[p][2].reported
    /\ sent[p][3].headers.XPAYMENT = ArtifactFor(p, 2)
    /\ EndedAsAttempted(p, 3)
    /\ ~MarkedBefore(p, 2)
    /\ MarkedBefore(p, 3)

\* C30: on every retried request, of requestWithPayment and of the
\* interceptor, X-PAYMENT-TOKEN-TYPE names the variant the attached
\* artifact was built as: STX exactly when it is a native transfer, sBTC or
\* USDCx exactly when it is a SIP-010 contract call, whatever tokenType the
\* validated 402 body carried.
C30_TokenTypeHeaderNamesTheVariant ==
  \A p \in Calls \cup Wrapped :
    \A j \in DOMAIN sent[p] :
      sent[p][j].headers.XPAYMENT # None =>
        LET tx == sent[p][j].headers.XPAYMENT[1].tx
            tokenType == sent[p][j].headers.XPAYMENTTOKENTYPE
        IN /\ tokenType = Some("STX") <=> tx.variant = "token_transfer"
           /\ tokenType \in {Some("sBTC"), Some("USDCx")} <=> tx.variant = "contract_call"

\* ------------------------------------------------------------------ C31
\* What a handler decides for a first 402: kind is "invalid", "expired",
\* "signing" (the signer failed), "retry" (a second request went out, with
\* this X-PAYMENT-TOKEN-TYPE and an artifact for this transfer), or
\* "other" when the call ended in any other way.
Decision(kind, tokenType, tx) == [kind |-> kind, tokenType |-> tokenType, tx |-> tx]

\* What the signer's result makes of a handler that reached the signer.
DecisionAfterSigning(body, signResult) ==
  IF signResult.success
    THEN Decision("retry", Some(tokenTypeOrSTX(body)),
                  Some(signResult.signedTransaction[1].tx))
    ELSE Decision("signing", None, None)

\* The decision of the catch block of requestWithPayment for this body,
\* this clock and this behaviour of the chain SDK, with the key of p.
CallDecision(body, p, clock, sdk) ==
  LET todo == catchBlock(Response(402, body), clock)
  IN IF todo = "sign"
       THEN DecisionAfterSigning(body, signPayment(body, p, 1, sdk))
     ELSE IF todo \in {"invalid", "expired"} THEN Decision(todo, None, None)
     ELSE Decision("other", None, None)

\* The decision of the interceptor's rejection handler for the same.
InterceptorDecision(body, p, clock, sdk) ==
  LET todo == onRejected(Response(402, body), {}, p, 1, clock)
  IN IF todo = "sign"
       THEN DecisionAfterSigning(body, awaitSignPaymentV1(body, account(p), p, 1, sdk))
     ELSE IF todo \in {"invalid", "expired"} THEN Decision(todo, None, None)
     ELSE Decision("other", None, None)

\* p has received one response, a 402, and its handler has run to its end.
FirstHandled(p) ==
  /\ Len(received[p]) = 1
  /\ received[p][1].status = 402
  /\ pc[p] # "signing"

\* What p did about its first 402, read from what it sent and how it ended.
ObservedDecision(p) ==
  IF pc[p] = "awaitResponse"
    THEN Decision("retry", sent[p][2].headers.XPAYMENTTOKENTYPE,
                  Some(sent[p][2].headers.XPAYMENT[1].tx))
  ELSE IF signerCalls[p] # <<>>
    THEN IF signerCalls[p][1].result[1].success
           THEN Decision("other", None, None)
           ELSE Decision("signing", None, None)
  ELSE IF result[p] = Some(Threw(NewError(MsgInvalid)))
    THEN Decision("invalid", None, None)
  ELSE IF result[p] = Some(Threw(NewError(MsgExpired)))
    THEN Decision("expired", None, None)
  ELSE Decision("other", None, None)

\* How the chain SDK behaved in the signing p did for its first 402.
SdkDuringFirst(p) ==
  IF signerCalls[p] = <<>> THEN "ok" ELSE signerCalls[p][1].sdk[1]

\* C31: for the same first 402 body, key and clock the explicit call and
\* the interceptor decide alike: what either path is seen to do (reject as
\* invalid, reject as expired, fail at signing, or retry once with a token
\* type header and an artifact) is what the other path's handler decides
\* for that body, that key, that clock and that behaviour of the SDK; for
\* every body, null and non-mapping bodies included.
C31_BothPathsDecideAlike ==
  \A p \in SeqProcs :
    FirstHandled(p) =>
      /\ ObservedDecision(p).kind # "other"
      /\ path[p] = "call" =>
           ObservedDecision(p) =
             InterceptorDecision(received[p][1].data, p, handledAt[p], SdkDuringFirst(p))
      /\ path[p] = "axios" =>
           ObservedDecision(p) =
             CallDecision(received[p][1].data, p, handledAt[p], SdkDuringFirst(p))

\* ------------------------------------------------------------------ C32
\* One step of a requestWithPayment call leaves the caller's options as
\* they were, and a request it issues carries the caller's headers, with
\* the two payment headers set when a payment has been signed.
CallLeavesOptions(p) ==
  path[p] = "call" =>
    /\ configs'[p] = configs[p]
    /\ maxRetries'[p] = maxRetries[p]
    /\ Len(sent'[p]) > Len(sent[p]) =>
         LET h == Last(sent'[p]).headers
         IN IF lastSignedPayment'[p] = None
              THEN h = configs[p][1]
              ELSE /\ h.XPAYMENT = lastSignedPayment'[p]
                   /\ h.XPAYMENTTOKENTYPE # None
                   /\ [h EXCEPT !.XPAYMENT = configs[p][1].XPAYMENT,
                                !.XPAYMENTTOKENTYPE = configs[p][1].XPAYMENTTOKENTYPE]
                        = configs[p][1]

\* One step of the wrapped instance changes a config object only when the
\* signer has just succeeded, only the object of the handled error, and
\* only in its two payment headers.
InterceptorOnlyAddsPaymentHeaders(p) ==
  path[p] = "axios" =>
    \A c \in DOMAIN configs[p] :
      configs'[p][c] # configs[p][c] =>
        /\ pc[p] = "signing"
        /\ c = originalRequest[p]
        /\ Last(signerCalls'[p]).result[1].success
        /\ configs'[p][c] =
             [configs[p][c] EXCEPT
                !.XPAYMENT = Last(signerCalls'[p]).result[1].signedTransaction,
                !.XPAYMENTTOKENTYPE = Some(tokenTypeOrSTX(paymentRequest[p][1]))]

\* C32: requestWithPayment never changes the options and the headers
\* object of its caller, however the call goes: every request gets a copy
\* of the headers, and the payment headers go into the copy.  The
\* interceptor changes the original request object only by setting the two
\* payment headers on it, and only after the signer has succeeded.
C32_CallerObjectsAreLeftAlone ==
  [][\A p \in Procs : CallLeavesOptions(p) /\ InterceptorOnlyAddsPaymentHeaders(p)]_vars

\* C32 witness: a call has sent its paid retry and its caller's headers
\* hold no payment header, while a request of the wrapped instance has
\* been signed and its config object carries the payment headers.
C32_Witness ==
  /\ path[1] = "call"
  /\ Len(sent[1]) = 2
  /\ sent[1][2].headers.XPAYMENT # None
  /\ configs[1] = <<NoHeaders>>
  /\ path[2] = "axios"
  /\ Len(sent[2]) = 2
  /\ configs[2][1].XPAYMENT = ArtifactFor(2, 1)
  /\ configs[2][1].XPAYMENTTOKENTYPE # None

\* ====================================================== retryWithBackoff
\* utils.retryWithBackoff(fn, maxAttempts, baseDelayMs) is called directly:
\* fnArg holds its arguments (None for an argument left out), and
\* fnOut["retryWithBackoff"] holds the run: where it stands (pc), the loop
\* variable attempt, lastError, how it ended (result), and the trace of
\* what it did: a call of fn, the settlement of that call, a wait of ms
\* milliseconds.
MaxAttemptsBound == 3

MsgUnknown == "Unknown error"
MsgMaxAttempts == "Max retry attempts exceeded"

\* What fn's k-th call can settle with: a value, a rejection with an Error
\* object, or a rejection with a value that is no Error (a string).
FnOutcomes(k) ==
  {Returned("value of call " \o ToString(k)),
   Threw([NewError("fn failed") EXCEPT !.seq = k]),
   Threw([name |-> "string", message |-> "fn failed", response |-> None,
          by |-> 0, seq |-> k])}

RetryEvent(event, ms, outcome) == [event |-> event, ms |-> ms, outcome |-> outcome]

\* error instanceof Error
instanceofError(error) == error.name \in {"Error", "TypeError", "AxiosError"}

\* Mutant of caughtError: what fn threw is kept as it is.
caughtErrorKept(error) == error

\* lastError = error instanceof Error ? error : new Error('Unknown error')
caughtError(error) ==
  IF instanceofError(error) THEN error ELSE NewError(MsgUnknown)

\* waitWithBackoff(attempt, baseDelayMs): the delay handed to setTimeout,
\* maxDelayMs being left to its default of 30000.
waitWithBackoff(att, baseDelayMs) ==
  LET delay == baseDelayMs * 2^att
  IN IF delay < 30000 THEN delay ELSE 30000

\* Mutant of shouldWait: a wait follows every failure.
shouldWaitAlways(att, maxAttempts) == TRUE

\* if (attempt < maxAttempts - 1)
shouldWait(att, maxAttempts) == att < maxAttempts - 1

\* The arguments with their defaults: maxAttempts = 3, baseDelayMs = 1000.
maxAttemptsOf(arg) == IF arg.maxAttempts = None THEN 3 ELSE arg.maxAttempts[1]
baseDelayMsOf(arg) == IF arg.baseDelayMs = None THEN 1000 ELSE arg.baseDelayMs[1]

\* The head of the for loop with the loop variable at att: fn is called,
\* or the loop is left and lastError || new Error(...) is thrown.
forLoop(run, att, maxAttempts) ==
  IF att < maxAttempts
    THEN [run EXCEPT !.pc = "calling", !.attempt = att,
                     !.trace = Append(@, RetryEvent("call", 0, None))]
    ELSE [run EXCEPT !.pc = "done", !.attempt = att,
                     !.result = Some(Threw(IF run.lastError # None
                                             THEN run.lastError[1]
                                             ELSE NewError(MsgMaxAttempts)))]

RetryArgs ==
  [maxAttempts : {None} \cup {Some(n) : n \in (-1)..MaxAttemptsBound},
   baseDelayMs : {None} \cup {Some(b) : b \in {0, 20000}}]

InitRetry ==
  /\ NoRequests
  /\ fnArg \in RetryArgs
  /\ fnOut = NoOutputs

\* retryWithBackoff is called and runs up to its first await.
callRetryWithBackoff ==
  /\ ~Applied("retryWithBackoff")
  /\ fnOut' = Store(fnOut, "retryWithBackoff",
                    forLoop([pc |-> "start", attempt |-> 0, lastError |-> None,
                             trace |-> <<>>, result |-> None],
                            0, maxAttemptsOf(fnArg)))
  /\ UNCHANGED fnArg
  /\ UNCHANGED flowVars

\* await fn() settles, for the k-th call of fn: return its value, or catch
\* what it threw and either start the wait or go on to the loop head.
fnSettles(k, outcome) ==
  /\ Applied("retryWithBackoff")
  /\ fnOut["retryWithBackoff"].pc = "calling"
  /\ fnOut["retryWithBackoff"].attempt + 1 = k
  /\ LET run == fnOut["retryWithBackoff"]
         settled == [run EXCEPT
                       !.trace = Append(@, RetryEvent("settled", 0, Some(outcome)))]
     IN fnOut' = [fnOut EXCEPT !["retryWithBackoff"] =
          IF outcome.kind = "returned"
            THEN [settled EXCEPT !.pc = "done", !.result = Some(outcome)]
          ELSE LET caught ==
                     [settled EXCEPT !.lastError = Some(caughtError(outcome.error[1]))]
               IN IF shouldWait(run.attempt, maxAttemptsOf(fnArg))
                    THEN [caught EXCEPT
                            !.pc = "waiting",
                            !.trace = Append(@, RetryEvent("wait",
                                        waitWithBackoff(run.attempt, baseDelayMsOf(fnArg)),
                                        None))]
                    ELSE forLoop(caught, run.attempt + 1, maxAttemptsOf(fnArg))]
  /\ UNCHANGED fnArg
  /\ UNCHANGED flowVars

\* The timer of waitWithBackoff fires: attempt++ and the loop head.
timerFires ==
  /\ Applied("retryWithBackoff")
  /\ fnOut["retryWithBackoff"].pc = "waiting"
  /\ fnOut' = [fnOut EXCEPT !["retryWithBackoff"] =
                 forLoop(@, @.attempt + 1, maxAttemptsOf(fnArg))]
  /\ UNCHANGED fnArg
  /\ UNCHANGED flowVars

NextRetry ==
  \/ callRetryWithBackoff
  \/ \E k \in 1..MaxAttemptsBound : \E outcome \in FnOutcomes(k) :
       fnSettles(k, outcome)
  \/ timerFires

SpecRetry == InitRetry /\ [][NextRetry]_vars

\* ------------------------------------------------------------------ C33
\* The run of retryWithBackoff, once it has been called.
RetryRun == fnOut["retryWithBackoff"]

\* The positions of the trace where fn was called, and where a call settled.
CallsIn(trace) == {i \in DOMAIN trace : trace[i].event = "call"}
SettlementsIn(trace) == {i \in DOMAIN trace : trace[i].event = "settled"}

\* The number of calls of fn made up to position i of the trace.
CallsUpTo(trace, i) == Cardinality({j \in CallsIn(trace) : j <= i})

\* min(baseDelayMs * 2^attempt, 30000)
BackoffDelay(baseDelayMs, att) ==
  IF baseDelayMs * 2^att <= 30000 THEN baseDelayMs * 2^att ELSE 30000

\* Everything C33 says except which error is thrown when all calls fail.
RetryRunIsOrderly(run, maxAttempts, baseDelayMs) ==
  LET trace == run.trace
  IN \* at most maxAttempts calls, none at all for maxAttempts <= 0
     /\ Cardinality(CallsIn(trace)) <= (IF maxAttempts > 0 THEN maxAttempts ELSE 0)
     /\ maxAttempts <= 0 =>
          /\ run.pc = "done"
          /\ trace = <<>>
          /\ run.result = Some(Threw(NewError(MsgMaxAttempts)))
     \* one after another: a call starts the trace or follows a wait, and
     \* nothing but its settlement follows it
     /\ \A i \in CallsIn(trace) :
          /\ i = 1 \/ trace[i - 1].event = "wait"
          /\ i < Len(trace) => trace[i + 1].event = "settled"
     /\ \A i \in SettlementsIn(trace) :
          LET outcome == trace[i].outcome[1]
              k == CallsUpTo(trace, i)
          IN \* the first success ends the run with its result
             /\ outcome.kind = "returned" =>
                  /\ i = Len(trace)
                  /\ run.pc = "done"
                  /\ run.result = Some(outcome)
             \* a failure that is not the last permitted one is followed
             \* by the wait of its attempt, and then by the next call
             /\ (outcome.kind = "threw" /\ k < maxAttempts) =>
                  /\ i < Len(trace)
                  /\ trace[i + 1] =
                       RetryEvent("wait", BackoffDelay(baseDelayMs, k - 1), None)
                  /\ i + 1 < Len(trace) => trace[i + 2].event = "call"
             \* the last permitted failure ends the run without a wait
             /\ (outcome.kind = "threw" /\ k = maxAttempts) =>
                  /\ i = Len(trace)
                  /\ run.pc = "done"
                  /\ run.result # None
                  /\ run.result[1].kind = "threw"
     \* a run ends with a result, and only by a success, by the last
     \* permitted failure or without a call
     /\ run.pc = "done" <=> run.result # None
     /\ (run.pc = "done" /\ maxAttempts > 0) =>
          /\ trace # <<>>
          /\ Last(trace).event = "settled"
          /\ Last(trace).outcome[1].kind = "threw" =>
               Cardinality(CallsIn(trace)) = maxAttempts

\* The run ended because every permitted call of fn failed.
AllCallsFailed(run) ==
  /\ run.pc = "done"
  /\ run.trace # <<>>
  /\ Last(run.trace).outcome[1].kind = "threw"

\* C33 as stated: retryWithBackoff calls fn at most maxAttempts times, one
\* call after the other; the first success ends it with that result and
\* without further calls; when all calls fail it throws the error of the
\* last call; it waits min(baseDelayMs * 2^attempt, 30000) ms between two
\* attempts and not after the last; with maxAttempts <= 0 it throws 'Max
\* retry attempts exceeded' without calling fn.
C33_ThrowsTheErrorOfTheLastCall ==
  Applied("retryWithBackoff") =>
    /\ RetryRunIsOrderly(RetryRun, maxAttemptsOf(fnArg), baseDelayMsOf(fnArg))
    /\ AllCallsFailed(RetryRun) =>
         RetryRun.result = Some(Threw(Last(RetryRun.trace).outcome[1].error[1]))

\* C33 amended: as stated, except that when all calls fail the error
\* thrown is the error of the last call only if that is an Error object;
\* when the last call failed with anything else, a new Error 'Unknown
\* error' is thrown in its place.
C33_ThrowsTheLastErrorOrUnknownError ==
  Applied("retryWithBackoff") =>
    /\ RetryRunIsOrderly(RetryRun, maxAttemptsOf(fnArg), baseDelayMsOf(fnArg))
    /\ AllCallsFailed(RetryRun) =>
         LET last == Last(RetryRun.trace).outcome[1].error[1]
         IN RetryRun.result =
              Some(Threw(IF last.name = "string" THEN NewError(MsgUnknown) ELSE last))

\* C33 witness: three attempts with a base delay of 20000 ms; the first
\* two calls failed and were followed by waits of 20000 and 30000 ms, the
\* third failed with a string, and 'Unknown error' was thrown.
C33_Witness ==
  /\ Applied("retryWithBackoff")
  /\ fnArg = [maxAttempts |-> Some(3), baseDelayMs |-> Some(20000)]
  /\ RetryRun.pc = "done"
  /\ Len(RetryRun.trace) = 8
  /\ RetryRun.trace[3].ms = 20000
  /\ RetryRun.trace[6].ms = 30000
  /\ RetryRun.trace[8].outcome[1].kind = "threw"
  /\ RetryRun.trace[8].outcome[1].error[1].name = "string"
  /\ RetryRun.result = Some(Threw(NewError(MsgUnknown)))

====
